---------------------------- MODULE Spec2Model ----------------------------
(***************************************************************************)
(* IndiVest backend: the portfolio risk analysis of                         *)
(* backend/app/routers/risk_analysis.py and the VaR service of              *)
(* backend/app/services/analysis_service.py.                                *)
(*                                                                          *)
(* Numbers.  The code computes in binary floating point; the model computes *)
(* exactly.  A rational is a pair <<n, d>> with d > 0; <<0, 0>> is NaN and  *)
(* <<1, 0>>, <<-1, 0>> are the infinities a float division by zero yields.  *)
(* A return is an integer in units of 1/RetScale.  Quantities that hold a   *)
(* square root keep the rational under the root (volatility, Sharpe ratio)  *)
(* or the factor under the root (the VaR horizons).                         *)
(***************************************************************************)
EXTENDS Integers, Sequences, FiniteSets, TLC

(***************************************************************************)
(* Bounds of the exploration.                                               *)
(***************************************************************************)
\* Longest price history (rows) the price provider returns.
MaxDays == 3
\* Largest holding quantity; quantities range over -1 .. MaxQty.
MaxQty == 1

Users == {1, 2}
StockIds == {1, 2}
Symbol(stock_id) == IF stock_id = 1 THEN "A" ELSE "B"
\* Prices the provider quotes.
PriceLevels == {1, 2}
\* Stock.current_price; 0 stands for a missing (None) or zero price, both falsy.
StockPrices == {0, 1, 2}
Quantities == -1 .. MaxQty
\* confidence_level in percent.
ConfidenceLevels == {50, 95}

\* The unit of returns: every return between two price levels is a whole
\* multiple of 1/RetScale.
RetScale == CHOOSE m \in PriceLevels : \A p \in PriceLevels : m % p = 0

(***************************************************************************)
(* Arithmetic helpers.                                                      *)
(***************************************************************************)
Abs(x) == IF x < 0 THEN -x ELSE x

RECURSIVE Gcd(_, _)
Gcd(a, b) == IF b = 0 THEN Abs(a) ELSE Gcd(b, a % b)

\* The rational n/d in lowest terms, d > 0; a zero denominator is kept as
\* NaN (0/0) or a signed infinity.
Rat(n, d) ==
    IF d = 0 THEN <<(IF n > 0 THEN 1 ELSE IF n < 0 THEN -1 ELSE 0), 0>>
    ELSE LET g == Gcd(n, d)
             s == IF d < 0 THEN -1 ELSE 1
         IN  <<(s * n) \div g, (s * d) \div g>>

NaN == <<0, 0>>
IsNaN(q) == q = NaN
IsFinite(q) == q[2] # 0
RatZero == <<0, 1>>
RatOne == <<1, 1>>
RatNeg(q) == <<-q[1], q[2]>>
RatSub(p, q) == IF ~IsFinite(p) \/ ~IsFinite(q) THEN NaN
                ELSE Rat(p[1] * q[2] - q[1] * p[2], p[2] * q[2])
RatMulInt(q, k) == IF ~IsFinite(q) THEN q ELSE Rat(q[1] * k, q[2])
\* q > 0 as a float comparison: False for NaN.
RatPos(q) == q[1] > 0 /\ q # NaN
RatLess(p, q) == IsFinite(p) /\ IsFinite(q) /\ p[1] * q[2] < q[1] * p[2]

\* The sequence s with its elements evaluated once.
Seq_(s) == s \o <<>>

RECURSIVE SumSeq(_)
SumSeq(s) == IF s = <<>> THEN 0 ELSE Head(s) + SumSeq(Tail(s))

RECURSIVE Insert(_, _)
Insert(x, s) == IF s = <<>> THEN <<x>>
                ELSE IF x <= Head(s) THEN <<x>> \o s
                ELSE <<Head(s)>> \o Insert(x, Tail(s))

\* np.sort: ascending.
RECURSIVE Sort(_)
Sort(s) == IF s = <<>> THEN <<>> ELSE Insert(Head(s), Sort(Tail(s)))

(***************************************************************************)
(* State.                                                                   *)
(***************************************************************************)
VARIABLES
    \* database tables
    portfolios,      \* set of [id, owner_id]
    holdings,        \* sequence (table order) of [portfolio_id, stock_id, quantity]
    stocks,          \* stock id -> [symbol, current_price]
    risk_analyses,   \* sequence of persisted RiskAnalysis records
    \* one analyze_portfolio_risk call: its position, arguments and locals
    pc,              \* "idle", "fetch", "service", "done"
    current_user, portfolio_id, confidence_level,
    symbols, weights, total_value,
    data, returns, volatility, sharpe_ratio,
    risk_metrics, risk_score,
    service_data,    \* the frame calculate_portfolio_var downloaded
    response,        \* [status, detail] of the finished call
    provider_calls,  \* yf.download invocations of this call
    raised_at,       \* which of them raised (0: none)
    \* the risk scorer on its own
    scorer_in,       \* [volatility, daily_var, sharpe_ratio]
    scorer_out,      \* <<the score of scorer_in>>, <<>> before it is scored
    \* the AnalysisService singleton and the outcome of an earlier call
    analysis_service, \* [sentiment_analyzer, model_name]
    previous,        \* what the call before this one saw and produced
    \* generate_recommendations on its own
    rec_in,          \* [returns, weights, symbols, risk_score]
    recommendations, \* <<the dict it returned>>, <<>> before the call
    \* calculate_var on its own
    var_in,          \* [returns, confidence_level]
    var_out,         \* <<[raised, index, var]>>, <<>> before the call
    \* the portfolio router
    transactions,    \* sequence of Transaction records
    operation,       \* the last request served: [name, current_user, portfolio_ids]
    returned,        \* the records in the body of its response
    workers,         \* requests in progress in the worker processes
    \* the market data router
    market_indices,  \* sequence of [symbol, last_updated]
    utcnow,          \* the clock, in ticks
    refresh          \* the update_market_indices calls so far: [fetches, at, raised]

dbVars == <<portfolios, holdings, stocks, risk_analyses>>
argVars == <<current_user, portfolio_id, confidence_level>>
weightVars == <<symbols, weights, total_value>>
routerVars == <<data, returns, volatility, sharpe_ratio>>
serviceVars == <<service_data, risk_metrics, risk_score>>
scorerVars == <<scorer_in, scorer_out>>
callVars == <<pc, argVars, weightVars, routerVars, serviceVars,
              response, provider_calls, raised_at>>
\* The variables of an analyze_portfolio_risk call other than its response.
analysisVars == <<pc, argVars, weightVars, routerVars, serviceVars,
                  provider_calls, raised_at>>
recVars == <<rec_in, recommendations>>
pureVars == <<scorerVars, recVars>>
varVars == <<var_in, var_out>>
requestVars == <<operation, returned>>
marketVars == <<market_indices, utcnow, refresh>>
otherVars == <<varVars, transactions, requestVars, workers, marketVars>>
frameVars == <<pureVars, previous, otherVars>>
vars == <<dbVars, callVars, analysis_service, frameVars>>

(***************************************************************************)
(* Weight resolution: analyze_portfolio_risk, the loop over the holdings    *)
(* and the normalisation.                                                   *)
(***************************************************************************)
\* db.query(Holding).filter(portfolio_id == pid).all()
HoldingsOf(hs, pid) == SelectSeq(hs, LAMBDA h : h.portfolio_id = pid)

\* "if stock and stock.current_price": the stock row exists and its price is
\* truthy.
HasPrice(h, stk) == h.stock_id \in DOMAIN stk /\ stk[h.stock_id].current_price # 0

Priced(hs, stk) == SelectSeq(hs, LAMBDA h : HasPrice(h, stk))

\* symbols.append(stock.symbol)
ResolveSymbols(hs, stk) ==
    Seq_([i \in 1 .. Len(Priced(hs, stk)) |-> stk[Priced(hs, stk)[i].stock_id].symbol])

\* value = holding.quantity * stock.current_price; weights.append(value)
ResolveValues(hs, stk) ==
    Seq_([i \in 1 .. Len(Priced(hs, stk)) |->
        Priced(hs, stk)[i].quantity * stk[Priced(hs, stk)[i].stock_id].current_price])

\* Variant: every value divided by the number of holdings.
NormalizeWeightsByCount(values, total) ==
    Seq_([i \in 1 .. Len(values) |-> <<values[i], Len(values)>>])

\* Variant: np.zeros(len(weights)) when the total is not positive.
NormalizeWeightsZeroFallback(values, total) ==
    IF total > 0
    THEN Seq_([i \in 1 .. Len(values) |-> <<values[i], total>>])
    ELSE Seq_([i \in 1 .. Len(values) |-> <<0, 1>>])

\* np.array(weights) / total_value if total_value > 0
\* else np.array([1/len(weights)] * len(weights)).  Each weight is the pair
\* <<numerator, denominator>>, the denominator common to the vector.
NormalizeWeights(values, total) ==
    IF total > 0
    THEN Seq_([i \in 1 .. Len(values) |-> <<values[i], total>>])
    ELSE Seq_([i \in 1 .. Len(values) |-> <<1, Len(values)>>])

WeightNums(w) == Seq_([i \in 1 .. Len(w) |-> w[i][1]])
WeightDen(w) == w[1][2]

(***************************************************************************)
(* Returns: data.pct_change().dropna()                                      *)
(***************************************************************************)
\* A missing return (pandas NaN): below every return a price pair can give.
NoRet == -(RetScale + 1)

\* r_t = p_t / p_(t-1) - 1, in units of 1/RetScale.
PctChange(prev, cur) == (RetScale * (cur - prev)) \div prev

\* DataFrame.pct_change: the first row has no predecessor.
PctChangeRows(rows) ==
    Seq_([t \in 1 .. Len(rows) |->
        Seq_([j \in 1 .. Len(rows[t]) |->
            IF t = 1 THEN NoRet ELSE PctChange(rows[t - 1][j], rows[t][j])])])

\* DataFrame.dropna: a row with any missing cell goes.
DropNa(rows) == SelectSeq(rows, LAMBDA r : \A j \in 1 .. Len(r) : r[j] # NoRet)

Returns(table) ==
    [columns |-> table.columns, rows |-> DropNa(PctChangeRows(table.rows))]

Column(rows, j) == Seq_([t \in 1 .. Len(rows) |-> rows[t][j]])

\* returns.dot(weights), numerators: position j of a row times position j
\* of the weight vector.
Dot(rows, wnum) ==
    Seq_([t \in 1 .. Len(rows) |->
        SumSeq([j \in 1 .. Len(wnum) |-> rows[t][j] * wnum[j]])])

SumSq(s) == SumSeq([i \in 1 .. Len(s) |-> s[i] * s[i]])

\* n * sum(x^2) - sum(x)^2: n^2 times the population variance of x.
Spread(s) == Len(s) * SumSq(s) - SumSeq(s) * SumSeq(s)

(***************************************************************************)
(* AnalysisService.calculate_var and calculate_portfolio_var                *)
(***************************************************************************)
TradingDays == 252
\* The risk-free rate, in percent.
RiskFreePct == 4
WeekDays == 5
MonthDays == 21

RiskFree == Rat(RiskFreePct, 100)

\* Variant: the product rounded up.
VarIndexCeil(c, n) == ((100 - c) * n + 99) \div 100

\* index = int((1 - confidence_level) * len(sorted_returns)), the confidence
\* level in percent.
VarIndex(c, n) == ((100 - c) * n) \div 100

\* Variant: calendar days, a week of 7 and a month of 30.
HorizonCalendar(timeframe) ==
    IF timeframe = "weekly" THEN 7
    ELSE IF timeframe = "monthly" THEN 30
    ELSE 1

\* The factor under np.sqrt that scales the VaR of a timeframe.
Horizon(timeframe) ==
    IF timeframe = "weekly" THEN WeekDays
    ELSE IF timeframe = "monthly" THEN MonthDays
    ELSE 1

\* sorted_returns[index] raises IndexError.
VarRaises(pr, c) == VarIndex(c, Len(pr)) >= Len(pr)

\* var = -sorted_returns[index], times sqrt(5) or sqrt(21): the value is
\* coef * sqrt(root).  pr holds the numerators of the series, den its
\* denominator.
CalculateVar(pr, den, c, timeframe) ==
    [coef |-> Rat(-Sort(pr)[VarIndex(c, Len(pr)) + 1], den),
     root |-> Horizon(timeframe)]

\* np.std(portfolio_returns) * np.sqrt(252); the value is sqrt(sq).
ServiceVolatility(pr, den) ==
    [sq |-> Rat(TradingDays * Spread(pr), Len(pr) * Len(pr) * den * den)]

\* np.mean(portfolio_returns) * 252
ServiceExpectedReturn(pr, den) == Rat(TradingDays * SumSeq(pr), Len(pr) * den)

\* (expected_return - 0.04) / volatility, no test of the divisor: the value
\* is num / sqrt(den_sq), an infinity or NaN when den_sq is 0.
ServiceSharpe(expected_return, vol) ==
    [num |-> RatSub(expected_return, RiskFree), den_sq |-> vol.sq]

NoVar == [coef |-> NaN, root |-> 1]
NoRoot == [sq |-> NaN]
NoSharpe == [num |-> NaN, den_sq |-> NaN]
NoMetrics ==
    [raised |-> FALSE, computed |-> FALSE,
     daily_var |-> NoVar, weekly_var |-> NoVar, monthly_var |-> NoVar,
     volatility |-> NoRoot, expected_return |-> NaN, sharpe_ratio |-> NoSharpe]

\* Variant: the call caches a pipeline on the singleton.
CalculatePortfolioVarCaching(self) == [self EXCEPT !.sentiment_analyzer = "pipeline"]

\* The singleton after calculate_portfolio_var and the calculate_var calls
\* in it: neither assigns an attribute of self.
CalculatePortfolioVarSelf(self) == self

\* calculate_portfolio_var once the download has returned `table`: the
\* metrics, or raised (the except clause re-raises every exception).
CalculatePortfolioVar(table, w, c) ==
    LET rows == Returns(table).rows
        shape_ok == \A t \in 1 .. Len(rows) : Len(rows[t]) = Len(w)
        pr == IF shape_ok THEN Dot(rows, WeightNums(w)) ELSE <<>>
        den == WeightDen(w) * RetScale
        vol == ServiceVolatility(pr, den)
        expected_return == ServiceExpectedReturn(pr, den)
    IN  IF ~shape_ok \/ VarRaises(pr, c)
        THEN [NoMetrics EXCEPT !.raised = TRUE]
        ELSE [raised |-> FALSE, computed |-> TRUE,
              daily_var |-> CalculateVar(pr, den, c, "daily"),
              weekly_var |-> CalculateVar(pr, den, c, "weekly"),
              monthly_var |-> CalculateVar(pr, den, c, "monthly"),
              volatility |-> vol,
              expected_return |-> expected_return,
              sharpe_ratio |-> ServiceSharpe(expected_return, vol)]

(***************************************************************************)
(* analyze_portfolio_risk: volatility, expected return and Sharpe ratio of  *)
(* the router (lines 65-84).                                                *)
(***************************************************************************)
\* X - X.mean(0), times the number of rows.
Centered(rows) ==
    Seq_([t \in 1 .. Len(rows) |->
        Seq_([j \in 1 .. Len(rows[t]) |->
            Len(rows) * rows[t][j] - SumSeq(Column(rows, j))])])

\* X.T @ X
Gram(X, p) ==
    Seq_([j \in 1 .. p |-> Seq_([k \in 1 .. p |->
        SumSeq([t \in 1 .. Len(X) |-> X[t][j] * X[t][k]])])])

SumMatrix(M, p) == SumSeq([j \in 1 .. p |-> SumSeq(M[j])])

Min(a, b) == IF a < b THEN a ELSE b
Max(a, b) == IF a > b THEN a ELSE b

\* sklearn.covariance.ledoit_wolf_shrinkage on the centred returns:
\* beta / delta with beta = min(beta, delta), 0 when beta is 0.
LedoitWolfShrinkage(rows, p) ==
    LET n == Len(rows)
        X == Centered(rows)
        G == Gram(X, p)
        X2 == Seq_([t \in 1 .. n |-> Seq_([j \in 1 .. p |-> X[t][j] * X[t][j]])])
        delta_ == SumMatrix([j \in 1 .. p |-> [k \in 1 .. p |-> G[j][k] * G[j][k]]], p)
        beta_ == SumMatrix(Gram(X2, p), p)
        trace == SumSeq([j \in 1 .. p |-> G[j][j]])
        beta == p * (n * beta_ - delta_)
        delta == n * (p * delta_ - trace * trace)
    IN  IF Min(beta, delta) = 0 THEN RatZero ELSE Rat(Min(beta, delta), delta)

\* LedoitWolf().fit(returns).covariance_:
\* (1 - shrinkage) * emp_cov + shrinkage * mu * identity, as the matrix of
\* numerators `num` over the common denominator `den`.
LedoitWolfCovariance(rows, p) ==
    LET n == Len(rows)
        G == Gram(Centered(rows), p)
        trace == SumSeq([j \in 1 .. p |-> G[j][j]])
        sh == LedoitWolfShrinkage(rows, p)
    IN  [num |-> Seq_([j \in 1 .. p |-> Seq_([k \in 1 .. p |->
                    (sh[2] - sh[1]) * p * G[j][k]
                    + (IF j = k THEN sh[1] * trace ELSE 0)])]),
         den |-> sh[2] * p * n * n * n * RetScale * RetScale]

\* weights.T @ cov_matrix @ weights
QuadForm(wnum, M) ==
    SumSeq([j \in 1 .. Len(wnum) |->
        SumSeq([k \in 1 .. Len(wnum) |-> wnum[j] * M[j][k] * wnum[k]])])

\* LedoitWolf().fit raises ValueError on an array with no sample;
\* weights.T @ cov_matrix @ weights raises on mismatched shapes.
VarianceRaises(rows, w) ==
    Len(w) > 1 /\ (rows = <<>> \/ \E t \in 1 .. Len(rows) : Len(rows[t]) # Len(w))

\* portfolio_variance: the shrunk quadratic form for several symbols,
\* returns.var()[0] (sample variance, NaN below two rows) for one.
PortfolioVariance(rows, w) ==
    IF Len(w) > 1
    THEN LET cov == LedoitWolfCovariance(rows, Len(w))
         IN  Rat(QuadForm(WeightNums(w), cov.num),
                 cov.den * WeightDen(w) * WeightDen(w))
    ELSE IF Len(rows) < 2 THEN NaN
    ELSE Rat(Spread(Column(rows, 1)),
             Len(rows) * (Len(rows) - 1) * RetScale * RetScale)

\* volatility = np.sqrt(portfolio_variance) * np.sqrt(252); the value is
\* sqrt(sq).
RouterVolatility(rows, w) == [sq |-> RatMulInt(PortfolioVariance(rows, w), TradingDays)]

\* expected_return = np.sum(returns.mean() * weights) * 252; the mean of no
\* rows is NaN, which the pandas sum skips.
RouterExpectedReturn(rows, w) ==
    IF rows = <<>> THEN RatZero
    ELSE Rat(TradingDays * SumSeq(Dot(rows, WeightNums(w))),
             Len(rows) * WeightDen(w) * RetScale)

ZeroSharpe == [num |-> RatZero, den_sq |-> RatOne]

\* sharpe_ratio = (expected_return - risk_free_rate) / volatility
\*                if volatility > 0 else 0
RouterSharpe(expected_return, vol) ==
    IF RatPos(vol.sq)
    THEN [num |-> RatSub(expected_return, RiskFree), den_sq |-> vol.sq]
    ELSE ZeroSharpe

(***************************************************************************)
(* The risk score (lines 93-99).  The scorer reads the volatility and the   *)
(* Sharpe ratio in hundredths and the daily VaR in thousandths.             *)
(***************************************************************************)
\* 0.3, in hundredths.
VolScale == 30
\* 0.03, in thousandths.
VarScale == 30
\* The ideal Sharpe ratio.
IdealSharpe == 2
\* The divisor of the Sharpe deviation.
SharpeDiv == 2
ScoreMin == 1
ScoreMax == 10
ScoreScale == 10

RECURSIVE ISqrtIn(_, _, _)
ISqrtIn(n, lo, hi) ==
    IF hi - lo <= 1 THEN lo
    ELSE LET mid == (lo + hi) \div 2
         IN  IF mid * mid <= n THEN ISqrtIn(n, mid, hi) ELSE ISqrtIn(n, lo, mid)

\* floor(sqrt(n))
ISqrt(n) == ISqrtIn(n, 0, Min(n + 1, 46341))

\* sqrt(sq) in hundredths.
FixRoot(sq) == (100 * ISqrt(sq[1] * sq[2])) \div sq[2]

\* A daily VaR (root 1) in thousandths.
FixVar(v) == (1000 * v.coef[1]) \div v.coef[2]

\* A Sharpe ratio num / sqrt(den_sq) in hundredths.
FixSharpe(sh) == (100 * ((100 * sh.num[1]) \div sh.num[2])) \div FixRoot(sh.den_sq)

\* Variant: a tie goes up.
RoundHalfUp(num, den) ==
    IF 2 * (num % den) >= den THEN (num \div den) + 1 ELSE num \div den

\* Python's round(): to the nearest integer, a tie to the even one.
Round(num, den) ==
    LET q == num \div den
        r == num % den
    IN  IF 2 * r < den THEN q
        ELSE IF 2 * r > den THEN q + 1
        ELSE IF q % 2 = 0 THEN q ELSE q + 1

\* min(10, max(1, round(np.mean(risk_factors) * 10))) with
\* risk_factors = [vol / 0.3, daily_var / 0.03, abs(sharpe - 2) / 2].
\* Variant: the rounded mean as it is.
NoClamp(score) == score

\* Variant: the score of a call drifts once an earlier call has run.
ClampDrift(score) ==
    Min(ScoreMax, Max(ScoreMin, score)) + (IF previous.called THEN 1 ELSE 0)

\* min(10, max(1, score))
Clamp(score) == Min(ScoreMax, Max(ScoreMin, score))

RiskScoreOf(vol, dvar, sharpe) ==
    LET sden == 100 * SharpeDiv
        num == ScoreScale * (vol * VarScale * sden + dvar * VolScale * sden
                             + Abs(sharpe - 100 * IdealSharpe) * VolScale * VarScale)
        den == 3 * VolScale * VarScale * sden
    IN  Clamp(Round(num, den))

\* round() of an infinity or a NaN raises (OverflowError, ValueError): the
\* Sharpe ratio of the service is one when its volatility is 0.
ScoreRaises(m) == ~RatPos(m.sharpe_ratio.den_sq) \/ ~IsFinite(m.sharpe_ratio.num)

RiskScore(m) ==
    RiskScoreOf(FixRoot(m.volatility.sq), FixVar(m.daily_var), FixSharpe(m.sharpe_ratio))

(***************************************************************************)
(* The call of generate_recommendations and the RiskAnalysis record         *)
(* (lines 101-119).                                                         *)
(***************************************************************************)
\* def generate_recommendations(returns, weights, symbols, risk_score)
RecommendParams == {"returns", "weights", "symbols", "risk_score"}
\* The keywords analyze_portfolio_risk passes.
RecommendKeywords == {"returns", "weights", "symbols", "risk_score", "risk_metrics"}
\* An unexpected keyword argument: TypeError.
RecommendRaises == ~(RecommendKeywords \subseteq RecommendParams)

\* The names analyze_portfolio_risk binds before line 111.
BoundNames ==
    {"portfolio_id", "confidence_level", "db", "current_user", "portfolio",
     "holdings", "symbols", "weights", "total_value", "holding", "stock", "value",
     "data", "returns", "cov_matrix", "portfolio_variance", "volatility",
     "expected_return", "risk_free_rate", "sharpe_ratio", "risk_metrics",
     "risk_factors", "risk_score", "recommendations"}
\* The names the RiskAnalysis constructor call reads.
RecordNames ==
    {"portfolio_id", "risk_score", "volatility", "sharpe_ratio", "var_95",
     "recommendations"}
\* A name read before it is bound: NameError.
RecordRaises == ~(RecordNames \subseteq BoundNames)

(***************************************************************************)
(* The price provider: yf.download(symbols, period="1y",                    *)
(* interval="1d")['Adj Close'].                                             *)
(***************************************************************************)
SymbolRank(sym) == IF sym = "A" THEN 1 ELSE 2

\* The symbols in alphabetical order (at most two of them).
Alphabetical(syms) ==
    IF Len(syms) = 2 /\ SymbolRank(syms[1]) > SymbolRank(syms[2])
    THEN <<syms[2], syms[1]>>
    ELSE syms

\* The column order of the frame is the library's: the order of the request
\* or the alphabetical one.
ColumnOrders(syms) == {syms, Alphabetical(syms)}

PriceRows(width) == [1 .. width -> PriceLevels]

\* Every frame a download of `syms` may return.
Downloads(syms) ==
    {[columns |-> cols, rows |-> r] :
        cols \in ColumnOrders(syms),
        r \in UNION {[1 .. n -> PriceRows(Len(syms))] : n \in 0 .. MaxDays}}

\* What the second download of a call may return: the same year of prices,
\* or the year with its oldest day gone (the start of the period="1y" window
\* has moved on).
LaterDownloads(prev) ==
    {prev, [prev EXCEPT !.rows = IF @ = <<>> THEN @ ELSE Tail(@)]}

(***************************************************************************)
(* Initial state: a database with one portfolio, owned by user 1, and no    *)
(* call in progress.                                                        *)
(***************************************************************************)
NoResponse == [status |-> 0, detail |-> ""]
NoScorerInput == [volatility |-> 0, daily_var |-> 0, sharpe_ratio |-> 0]
NoData == [columns |-> <<>>, rows |-> <<>>]

HoldingRows ==
    {[portfolio_id |-> 1, stock_id |-> s, quantity |-> q] :
        s \in StockIds, q \in Quantities}

\* The holdings table: at most one row per stock (create_holding updates an
\* existing row), any quantity (HoldingCreate.quantity is an unconstrained
\* float).
HoldingTables ==
    {<<>>} \cup {<<h>> : h \in HoldingRows}
    \cup {t \in {<<h1, h2>> : h1 \in HoldingRows, h2 \in HoldingRows} :
            t[1].stock_id # t[2].stock_id}

CallInit ==
    /\ pc = "idle"
    /\ current_user = 1 /\ portfolio_id = 1 /\ confidence_level = 95
    /\ symbols = <<>> /\ weights = <<>> /\ total_value = 0
    /\ data = NoData /\ returns = NoData
    /\ volatility = NoRoot /\ sharpe_ratio = NoSharpe
    /\ service_data = NoData /\ risk_metrics = NoMetrics /\ risk_score = 0
    /\ response = NoResponse
    /\ provider_calls = 0 /\ raised_at = 0

\* AnalysisService.__init__, run once at import (line 139).
AnalysisServiceNew == [sentiment_analyzer |-> "None", model_name |-> "ProsusAI/finbert"]

NoPrevious == [called |-> FALSE]

EngineInit == analysis_service = AnalysisServiceNew /\ previous = NoPrevious

ScorerIdle == scorer_in = NoScorerInput /\ scorer_out = <<>>

NoRecInput == [returns |-> NoData, weights |-> <<>>, symbols |-> <<>>, risk_score |-> 0]

RecommendIdle == rec_in = NoRecInput /\ recommendations = <<>>

NoVarInput == [returns |-> <<>>, confidence_level |-> 0]

VarIdle == var_in = NoVarInput /\ var_out = <<>>

NoOperation == [name |-> "", current_user |-> 0, portfolio_ids |-> <<>>]

\* No request served yet, no request in progress, no transaction recorded.
PortfolioIdle ==
    /\ transactions = <<>>
    /\ operation = NoOperation
    /\ returned = <<>>
    /\ workers = <<>>

\* The market_indices table before the first get_market_indices call.
NoRefresh == [fetches |-> 0, at |-> 0, raised |-> FALSE]

MarketIdle == market_indices = <<>> /\ utcnow = 0 /\ refresh = NoRefresh

Init ==
    /\ portfolios = {[id |-> 1, owner_id |-> 1]}
    /\ holdings \in HoldingTables
    /\ \E price \in [StockIds -> StockPrices] :
          stocks = [s \in StockIds |->
                      [symbol |-> Symbol(s), current_price |-> price[s]]]
    /\ risk_analyses = <<>>
    /\ CallInit
    /\ EngineInit
    /\ ScorerIdle
    /\ RecommendIdle
    /\ VarIdle
    /\ PortfolioIdle
    /\ MarketIdle

(***************************************************************************)
(* analyze_portfolio_risk                                                   *)
(***************************************************************************)
\* raise HTTPException(status_code, detail)
Raise(status_code, detail) ==
    /\ response' = [status |-> status_code, detail |-> detail]
    /\ pc' = "done"

\* Lines 26-59: the ownership check, the holdings and the weights.
Request(user, pid, c) ==
    /\ pc = "idle"
    /\ current_user' = user /\ portfolio_id' = pid /\ confidence_level' = c
    /\ data' = NoData /\ returns' = NoData
    /\ volatility' = NoRoot /\ sharpe_ratio' = NoSharpe
    /\ service_data' = NoData /\ risk_metrics' = NoMetrics /\ risk_score' = 0
    /\ provider_calls' = 0 /\ raised_at' = 0
    /\ UNCHANGED <<dbVars, analysis_service, frameVars>>
    /\ LET hs == HoldingsOf(holdings, pid)
           values == ResolveValues(hs, stocks)
       IN  IF ~\E p \in portfolios : p.id = pid /\ p.owner_id = user
           THEN /\ Raise(404, "Portfolio not found")
                /\ symbols' = <<>> /\ weights' = <<>> /\ total_value' = 0
           ELSE IF hs = <<>>
           THEN /\ Raise(400, "Portfolio has no holdings")
                /\ symbols' = <<>> /\ weights' = <<>> /\ total_value' = 0
           ELSE IF ResolveSymbols(hs, stocks) = <<>>
           THEN /\ Raise(400, "No valid stocks in portfolio")
                /\ symbols' = <<>> /\ weights' = <<>> /\ total_value' = 0
           ELSE /\ symbols' = ResolveSymbols(hs, stocks)
                /\ total_value' = SumSeq(values)
                /\ weights' = NormalizeWeights(values, SumSeq(values))
                /\ response' = NoResponse
                /\ pc' = "fetch"

\* Variant: the exception is swallowed and the step is left to run again.
Swallow500 == UNCHANGED <<pc, response>>

\* The except clause of line 127: every exception of the try block becomes
\* a 500.
Raise500 == Raise(500, "Error analyzing portfolio risk")

\* Lines 61-84, the download raising.
FetchRaises ==
    /\ pc = "fetch"
    /\ provider_calls' = provider_calls + 1
    /\ raised_at' = provider_calls + 1
    /\ Raise500
    /\ UNCHANGED <<dbVars, argVars, weightVars, routerVars, serviceVars,
                   analysis_service, frameVars>>

\* Lines 61-84, the download returning a frame.
Fetch(table) ==
    /\ pc = "fetch"
    /\ provider_calls' = provider_calls + 1
    /\ data' = table
    /\ returns' = Returns(table)
    /\ LET rows == Returns(table).rows
           vol == RouterVolatility(rows, weights)
       IN  IF VarianceRaises(rows, weights)
           THEN /\ Raise500
                /\ UNCHANGED <<volatility, sharpe_ratio>>
           ELSE /\ volatility' = vol
                /\ sharpe_ratio' = RouterSharpe(RouterExpectedReturn(rows, weights), vol)
                /\ pc' = "service"
                /\ UNCHANGED response
    /\ UNCHANGED <<dbVars, argVars, weightVars, serviceVars, raised_at,
                   analysis_service, frameVars>>

\* Lines 86-91, the download inside calculate_portfolio_var raising.
ServiceRaises ==
    /\ pc = "service"
    /\ provider_calls' = provider_calls + 1
    /\ raised_at' = provider_calls + 1
    /\ risk_metrics' = [NoMetrics EXCEPT !.raised = TRUE]
    /\ Raise500
    /\ analysis_service' = CalculatePortfolioVarSelf(analysis_service)
    /\ UNCHANGED <<dbVars, argVars, weightVars, routerVars, service_data, risk_score,
                   frameVars>>

\* Lines 86-128: calculate_portfolio_var on the frame of its own download,
\* the risk score, the recommendations and the record.
Service(table) ==
    /\ pc = "service"
    /\ provider_calls' = provider_calls + 1
    /\ service_data' = table
    /\ LET m == CalculatePortfolioVar(table, weights, confidence_level)
       IN  /\ risk_metrics' = m
           /\ IF m.raised \/ ScoreRaises(m)
              THEN /\ Raise500
                   /\ UNCHANGED <<risk_score, risk_analyses>>
              ELSE /\ risk_score' = RiskScore(m)
                   /\ IF RecommendRaises \/ RecordRaises
                      THEN /\ Raise500
                           /\ UNCHANGED risk_analyses
                      ELSE \* db.add(risk_analysis); db.commit()
                           /\ risk_analyses' = Append(risk_analyses,
                                 [portfolio_id |-> portfolio_id,
                                  risk_score |-> RiskScore(m),
                                  volatility |-> volatility,
                                  sharpe_ratio |-> sharpe_ratio])
                           /\ response' = [status |-> 200, detail |-> ""]
                           /\ pc' = "done"
    /\ analysis_service' = CalculatePortfolioVarSelf(analysis_service)
    /\ UNCHANGED <<portfolios, holdings, stocks, argVars, weightVars, routerVars,
                   raised_at, frameVars>>

Next ==
    \/ \E user \in Users, pid \in {1, 2}, c \in ConfidenceLevels : Request(user, pid, c)
    \/ FetchRaises
    \/ \E table \in Downloads(symbols) : Fetch(table)
    \/ ServiceRaises
    \/ \E table \in LaterDownloads(data) : Service(table)

Spec == Init /\ [][Next]_vars

(***************************************************************************)
(* The risk scorer on its own: lines 93-99 applied to metrics drawn from a  *)
(* sample of finite values, the volatility and the Sharpe ratio in          *)
(* hundredths, the daily VaR in thousandths.                                *)
(***************************************************************************)
\* Largest magnitude of a sampled metric, in units of its scale (0.3, 0.03).
MaxMetric == 3

MetricSamples ==
    {k * VolScale : k \in -MaxMetric .. MaxMetric}
    \cup {1, 14, 15, 16, 100 * IdealSharpe, 100 * VolScale * MaxMetric}

ScorerInit ==
    /\ portfolios = {[id |-> 1, owner_id |-> 1]}
    /\ holdings = <<>>
    /\ stocks = [s \in StockIds |-> [symbol |-> Symbol(s), current_price |-> 0]]
    /\ risk_analyses = <<>>
    /\ CallInit
    /\ EngineInit
    /\ RecommendIdle
    /\ scorer_in \in [volatility : MetricSamples, daily_var : MetricSamples,
                      sharpe_ratio : MetricSamples]
    /\ scorer_out = <<>>
    /\ VarIdle
    /\ PortfolioIdle
    /\ MarketIdle

Score ==
    /\ scorer_out = <<>>
    /\ scorer_out' =
          <<RiskScoreOf(scorer_in.volatility, scorer_in.daily_var, scorer_in.sharpe_ratio)>>
    /\ UNCHANGED <<dbVars, callVars, scorer_in, analysis_service, previous, recVars,
                   otherVars>>

ScorerSpec == ScorerInit /\ [][Score]_vars

(***************************************************************************)
(* calculate_var (lines 23-49) on its own: applied to a series of returns   *)
(* and a confidence level in percent.                                       *)
(***************************************************************************)
\* The longest sampled series.
MaxVarLen == 4

\* Sampled returns of the portfolio, losses and gains.
VarReturns == -2 .. 2

\* Sampled confidence levels, in percent: 0 < c < 100.
VarLevels == {1, 5, 50, 90, 95, 99}

VarInit ==
    /\ portfolios = {[id |-> 1, owner_id |-> 1]}
    /\ holdings = <<>>
    /\ stocks = [s \in StockIds |-> [symbol |-> Symbol(s), current_price |-> 0]]
    /\ risk_analyses = <<>>
    /\ CallInit
    /\ EngineInit
    /\ ScorerIdle
    /\ RecommendIdle
    /\ PortfolioIdle
    /\ MarketIdle
    /\ var_in \in [returns : UNION {[1 .. n -> VarReturns] : n \in 1 .. MaxVarLen},
                   confidence_level : VarLevels]
    /\ var_out = <<>>

\* calculate_var(returns, confidence_level, 'daily'): the index it computes
\* and the value it returns, or the IndexError of the lookup.
Var ==
    /\ var_out = <<>>
    /\ LET pr == var_in.returns
           c == var_in.confidence_level
       IN  var_out' =
              <<[raised |-> VarRaises(pr, c),
                 index |-> VarIndex(c, Len(pr)),
                 var |-> IF VarRaises(pr, c) THEN NoVar
                         ELSE CalculateVar(pr, 1, c, "daily")]>>
    /\ UNCHANGED <<dbVars, callVars, analysis_service, pureVars, previous, var_in,
                   transactions, requestVars, workers, marketVars>>

VarSpec == VarInit /\ [][Var]_vars

(***************************************************************************)
(* generate_recommendations (lines 131-176), on its own: applied to a       *)
(* returns frame, a weight vector, the symbols and a risk score.            *)
(***************************************************************************)
\* a / b < c / d for a, c >= 0 and b, d > 0, by continued fractions: no
\* product is formed.
RECURSIVE FracLess(_, _, _, _)
FracLess(a, b, c, d) ==
    IF a \div b # c \div d THEN a \div b < c \div d
    ELSE IF c % d = 0 THEN FALSE
    ELSE IF a % b = 0 THEN TRUE
    ELSE FracLess(d, c % d, b, a % b)

\* n * sum(x * y) - sum(x) * sum(y): n * n times the covariance of x and y.
CoSpread(x, y) ==
    Len(x) * SumSeq(Seq_([t \in 1 .. Len(x) |-> x[t] * y[t]])) - SumSeq(x) * SumSeq(y)

\* One entry of returns.corr(): cov / sqrt(var_x * var_y) as
\* [nan, cov, var_x, var_y], NaN with fewer than two rows or a constant column.
Corr(x, y) ==
    [nan |-> Len(x) < 2 \/ Spread(x) = 0 \/ Spread(y) = 0,
     cov |-> CoSpread(x, y), var_x |-> Spread(x), var_y |-> Spread(y)]

NanCorr == [nan |-> TRUE, cov |-> 0, var_x |-> 0, var_y |-> 0]

\* corr_matrix.values[np.triu_indices_from(corr_matrix.values, 1)].mean():
\* the one pair of two columns; the mean of no entry (one column) is NaN.
AvgCorrelation(rows, p) ==
    IF p = 2 THEN Corr(Column(rows, 1), Column(rows, 2)) ELSE NanCorr

\* The correlation bands, in hundredths.
CorrHigh == 70
CorrModerate == 50

\* avg_correlation > pct / 100; a comparison with NaN is False.
CorrAbove(a, pct) ==
    /\ ~a.nan
    /\ a.cov > 0
    /\ FracLess(pct * pct * a.var_y, 100 * 100 * a.cov, a.cov, a.var_x)

\* Lines 146-151.
Diversification(a) ==
    IF CorrAbove(a, CorrHigh) THEN "high correlation"
    ELSE IF CorrAbove(a, CorrModerate) THEN "moderate diversification"
    ELSE "well-diversified"

\* The summary bands.
SummaryHigh == 8
SummaryModerate == 5

\* Variant: the bands start above their thresholds.
SummaryStrict(score) ==
    IF score > SummaryHigh THEN "high risk"
    ELSE IF score > SummaryModerate THEN "moderate risk"
    ELSE "conservative"

\* Lines 154-159.
Summary(score) ==
    IF score >= SummaryHigh THEN "high risk"
    ELSE IF score >= SummaryModerate THEN "moderate risk"
    ELSE "conservative"

\* The reduce thresholds: asset_sharpe < 0.1 in tenths, weights[i] > 0.1 in
\* tenths.
SharpeFloor == 1
WeightFloor == 1

\* asset_risk > 0: returns[symbol].std() (ddof = 1) is NaN for fewer than
\* two rows and 0 for a constant column.
AssetRiskPositive(x) == Len(x) >= 2 /\ Spread(x) > 0

\* asset_sharpe < 0.1, where asset_sharpe = asset_return / asset_risk
\* = sqrt(252) * mean / std if asset_risk > 0 else 0: with S = sum(x),
\* V = Spread(x), n = len(x) it is S <= 0 or
\* 100 * 252 * S * S * (n - 1) < SharpeFloor^2 * V * n.
AssetSharpeLow(x) ==
    IF ~AssetRiskPositive(x) THEN 0 < SharpeFloor
    ELSE \/ SumSeq(x) <= 0
         \/ FracLess(100 * TradingDays * SumSeq(x) * (Len(x) - 1), Spread(x),
                     SharpeFloor * SharpeFloor * Len(x), SumSeq(x))

\* weights[i] > 0.1
WeightHigh(w) == 10 * w[1] > WeightFloor * w[2]

\* Variant: either condition is enough.
NeedsReduceEither(x, w) == AssetSharpeLow(x) \/ WeightHigh(w)

\* Line 169: asset_sharpe < 0.1 and weights[i] > 0.1
NeedsReduce(x, w) == AssetSharpeLow(x) /\ WeightHigh(w)

\* Variant: each entry is put at the head of the list.
RECURSIVE OptimizationPrepend(_, _, _, _)
OptimizationPrepend(frame, w, syms, i) ==
    IF i > Len(syms) THEN <<>>
    ELSE LET j == CHOOSE k \in 1 .. Len(frame.columns) : frame.columns[k] = syms[i]
             rest == OptimizationPrepend(frame, w, syms, i + 1)
         IN  IF NeedsReduce(Column(frame.rows, j), w[i])
             THEN rest \o <<[symbol |-> syms[i], action |-> "reduce"]>>
             ELSE rest

\* Lines 163-174: the optimization entries, in the order of symbols.
RECURSIVE Optimization(_, _, _, _)
Optimization(frame, w, syms, i) ==
    IF i > Len(syms) THEN <<>>
    ELSE LET j == CHOOSE k \in 1 .. Len(frame.columns) : frame.columns[k] = syms[i]
             rest == Optimization(frame, w, syms, i + 1)
         IN  IF NeedsReduce(Column(frame.rows, j), w[i])
             THEN <<[symbol |-> syms[i], action |-> "reduce"]>> \o rest
             ELSE rest

\* returns[symbol] raises KeyError for a symbol that is no column.
RecommendationsRaise(frame, syms) ==
    \E i \in 1 .. Len(syms) : \A k \in 1 .. Len(frame.columns) : frame.columns[k] # syms[i]

GenerateRecommendations(frame, w, syms, score) ==
    IF RecommendationsRaise(frame, syms)
    THEN [raised |-> TRUE, summary |-> "", diversification |-> "",
          sector_exposure |-> "", optimization |-> <<>>]
    ELSE [raised |-> FALSE,
          summary |-> Summary(score),
          diversification |-> Diversification(AvgCorrelation(frame.rows, Len(frame.columns))),
          sector_exposure |-> "",
          optimization |-> Optimization(frame, w, syms, 1)]

\* Rows of the sampled returns frames.
MaxRecDays == 3

\* Sampled returns, in hundredths: a loss, nothing, a gain.
ReturnSamples == {-60, 0, 61}

\* Sampled weights: 0.05, 0.10 and 0.15.
WeightSamples == {<<1, 20>>, <<1, 10>>, <<3, 20>>}

RecInputs ==
    UNION {[returns : [columns : {syms},
                       rows : UNION {[1 .. n -> [1 .. Len(syms) -> ReturnSamples]] :
                                        n \in 0 .. MaxRecDays}],
            weights : [1 .. Len(syms) -> WeightSamples],
            symbols : {syms},
            risk_score : ScoreMin .. ScoreMax] :
           syms \in {<<"A">>, <<"A", "B">>, <<"B", "A">>}}

RecommendInit ==
    /\ portfolios = {[id |-> 1, owner_id |-> 1]}
    /\ holdings = <<>>
    /\ stocks = [s \in StockIds |-> [symbol |-> Symbol(s), current_price |-> 0]]
    /\ risk_analyses = <<>>
    /\ CallInit
    /\ EngineInit
    /\ ScorerIdle
    /\ rec_in \in RecInputs
    /\ recommendations = <<>>
    /\ VarIdle
    /\ PortfolioIdle
    /\ MarketIdle

Recommend ==
    /\ recommendations = <<>>
    /\ recommendations' =
          <<GenerateRecommendations(rec_in.returns, rec_in.weights, rec_in.symbols,
                                    rec_in.risk_score)>>
    /\ UNCHANGED <<dbVars, callVars, analysis_service, scorerVars, previous, rec_in,
                   otherVars>>

RecommendSpec == RecommendInit /\ [][Recommend]_vars

(***************************************************************************)
(* Two analyses one after the other, with analyze_sentiment requests        *)
(* loading the pipeline of the singleton at any moment.                     *)
(***************************************************************************)
RepeatInit ==
    /\ portfolios = {[id |-> 1, owner_id |-> 1]}
    /\ holdings \in {t \in HoldingTables : \A i \in DOMAIN t : t[i].quantity = 1}
    /\ stocks = [s \in StockIds |-> [symbol |-> Symbol(s), current_price |-> 1]]
    /\ risk_analyses = <<>>
    /\ CallInit
    /\ EngineInit
    /\ ScorerIdle
    /\ RecommendIdle
    /\ VarIdle
    /\ PortfolioIdle
    /\ MarketIdle

\* What a finished call was given and what it produced.
Outcome ==
    [called |-> TRUE,
     current_user |-> current_user, portfolio_id |-> portfolio_id,
     confidence_level |-> confidence_level,
     holdings |-> holdings, stocks |-> stocks,
     data |-> data, service_data |-> service_data, raised_at |-> raised_at,
     symbols |-> symbols, weights |-> weights,
     volatility |-> volatility, sharpe_ratio |-> sharpe_ratio,
     risk_metrics |-> risk_metrics, risk_score |-> risk_score,
     response |-> response, risk_analyses |-> risk_analyses]

\* The first call has returned; the server waits for the next request.
Again ==
    /\ pc = "done"
    /\ ~previous.called
    /\ previous' = Outcome
    /\ pc' = "idle"
    /\ UNCHANGED <<dbVars, argVars, weightVars, routerVars, serviceVars, response,
                   provider_calls, raised_at, analysis_service, pureVars, otherVars>>

\* get_sentiment_analyzer (lines 15-21): the first call loads the pipeline.
GetSentimentAnalyzer ==
    /\ analysis_service.sentiment_analyzer = "None"
    /\ analysis_service' = [analysis_service EXCEPT !.sentiment_analyzer = "pipeline"]
    /\ UNCHANGED <<dbVars, callVars, frameVars>>

\* The frames the provider returns to the second call: the history the first
\* call got, or that history a trading day later.
Replays(prev) == IF prev = NoData THEN Downloads(symbols) ELSE LaterDownloads(prev)

\* The same request once more.
SecondCall ==
    \/ Request(previous.current_user, previous.portfolio_id, previous.confidence_level)
    \/ FetchRaises
    \/ \E table \in Replays(previous.data) : Fetch(table)
    \/ ServiceRaises
    \/ \E table \in LaterDownloads(data) : Service(table)

RepeatNext ==
    \/ ~previous.called /\ Next
    \/ Again
    \/ previous.called /\ SecondCall
    \/ GetSentimentAnalyzer

RepeatSpec == RepeatInit /\ [][RepeatNext]_vars

(***************************************************************************)
(* The portfolio router (backend/app/routers/portfolio.py).  A Holding row  *)
(* is [id, portfolio_id, stock_id, quantity] and a Transaction row is       *)
(* [id, portfolio_id, stock_id, transaction_type, quantity]; a portfolio_id *)
(* of NoId is NULL.  The prices (Transaction.price and                      *)
(* Holding.average_buy_price) are left out: no condition of the router      *)
(* reads them.                                                              *)
(***************************************************************************)
NoId == 0

\* The primary key the database gives to the next row of a table.
NextId(rows) ==
    IF rows = <<>> THEN 1
    ELSE LET ids == {rows[i].id : i \in DOMAIN rows}
         IN  1 + CHOOSE m \in ids : \A k \in ids : k <= m

\* Variant: the query filters on the id only.
OwnerlessPortfolio(user, pid) == {p \in portfolios : p.id = pid}

\* db.query(models.Portfolio).filter(id == portfolio_id, owner_id ==
\* current_user.id): the rows (at most one) a handler works on.
OwnedPortfolio(user, pid) == {p \in portfolios : p.id = pid /\ p.owner_id = user}

\* `portfolio is None` is false.
Owns(user, pid) == OwnedPortfolio(user, pid) # {}

\* db.query(models.Stock).filter(models.Stock.id == stock_id).first()
StockExists(stock_id) == stock_id \in DOMAIN stocks

\* db.query(models.Holding).filter(portfolio_id, stock_id).first(): the row
\* as loaded, <<>> for None.
FindHolding(hs, pid, stock_id) ==
    LET found == SelectSeq(hs, LAMBDA h : h.portfolio_id = pid /\ h.stock_id = stock_id)
    IN  IF found = <<>> THEN <<>> ELSE <<Head(found)>>

HasRow(rows, id) == \E i \in DOMAIN rows : rows[i].id = id

\* The flush of a changed quantity: UPDATE holdings SET quantity = q WHERE
\* id = id.
UpdateQuantity(hs, id, q) ==
    Seq_([i \in DOMAIN hs |-> IF hs[i].id = id THEN [hs[i] EXCEPT !.quantity = q]
                                              ELSE hs[i]])

\* The flush of db.delete(row): DELETE FROM holdings WHERE id = id.
DeleteRow(rows, id) == SelectSeq(rows, LAMBDA r : r.id # id)

Settled(hs) == [status |-> 200, detail |-> "", holdings |-> hs]

\* The UPDATE of a row that is no longer in the table matches no row and the
\* session raises StaleDataError, which no handler catches.
Stale(hs) == [status |-> 500, detail |-> "Internal Server Error", holdings |-> hs]

NotEnoughShares(hs) ==
    [status |-> 400, detail |-> "Not enough shares to sell", holdings |-> hs]

\* Lines 237-261 of create_transaction: `holding` is the row loaded by the
\* query of line 232, `hs` the table when the session flushes and commits.
UpdateOrCreateHolding(hs, holding, pid, transaction) ==
    IF transaction.transaction_type = "BUY"
    THEN IF holding # <<>>
         THEN IF HasRow(hs, holding[1].id)
              THEN Settled(UpdateQuantity(hs, holding[1].id,
                                          holding[1].quantity + transaction.quantity))
              ELSE Stale(hs)
         ELSE Settled(Append(hs, [id |-> NextId(hs), portfolio_id |-> pid,
                                  stock_id |-> transaction.stock_id,
                                  quantity |-> transaction.quantity]))
    ELSE IF transaction.transaction_type = "SELL"
    THEN IF holding = <<>> \/ holding[1].quantity < transaction.quantity
         THEN NotEnoughShares(hs)
         ELSE IF holding[1].quantity - transaction.quantity = 0
         THEN Settled(DeleteRow(hs, holding[1].id))
         ELSE IF HasRow(hs, holding[1].id)
         THEN Settled(UpdateQuantity(hs, holding[1].id,
                                     holding[1].quantity - transaction.quantity))
         ELSE Stale(hs)
    ELSE Settled(hs)

\* Lines 218-229: the Transaction row added and committed.
NewTransaction(txs, pid, transaction) ==
    [id |-> NextId(txs), portfolio_id |-> pid,
     stock_id |-> transaction.stock_id,
     transaction_type |-> transaction.transaction_type,
     quantity |-> transaction.quantity]

\* The response of a handler: the status, the detail of the HTTPException
\* and the records of the body.
Reply(status_code, detail, body) ==
    /\ response' = [status |-> status_code, detail |-> detail]
    /\ returned' = body

Served(name, user, pids) ==
    operation' = [name |-> name, current_user |-> user, portfolio_ids |-> pids]

\* The most Transaction rows explored.
MaxTx == 3

\* Stock ids a request may name: the stocks of the table and one that is
\* not in it.
StockArgs == StockIds \cup {Cardinality(StockIds) + 1}

TransactionTypes == {"BUY", "SELL"}

\* Quantities of the sampled transactions.
TxQuantities == {1, 2}

TransactionCreates ==
    [stock_id : StockArgs, transaction_type : TransactionTypes, quantity : TxQuantities]

\* create_transaction (lines 197-262), one request served from start to end.
CreateTransaction(user, pid, transaction) ==
    /\ Len(transactions) < MaxTx
    /\ Served("create_transaction", user, <<pid>>)
    /\ IF ~Owns(user, pid)
       THEN /\ Reply(404, "Portfolio not found", <<>>)
            /\ UNCHANGED <<holdings, transactions>>
       ELSE IF ~StockExists(transaction.stock_id)
       THEN /\ Reply(404, "Stock not found", <<>>)
            /\ UNCHANGED <<holdings, transactions>>
       ELSE LET db_transaction == NewTransaction(transactions, pid, transaction)
                holding == FindHolding(holdings, pid, transaction.stock_id)
                settled == UpdateOrCreateHolding(holdings, holding, pid, transaction)
            IN  /\ transactions' = Append(transactions, db_transaction)
                /\ holdings' = settled.holdings
                /\ IF settled.status = 200
                   THEN Reply(200, "", <<db_transaction>>)
                   ELSE Reply(settled.status, settled.detail, <<>>)
    /\ UNCHANGED <<portfolios, stocks, risk_analyses, analysisVars, analysis_service,
                   pureVars, previous, varVars, workers, marketVars>>

\* A database with the portfolios of two users, no holdings and no
\* transactions.
TransactionInit ==
    /\ portfolios = {[id |-> 1, owner_id |-> 1], [id |-> 2, owner_id |-> 2]}
    /\ holdings = <<>>
    /\ stocks = [s \in StockIds |-> [symbol |-> Symbol(s), current_price |-> 0]]
    /\ risk_analyses = <<>>
    /\ CallInit
    /\ EngineInit
    /\ ScorerIdle
    /\ RecommendIdle
    /\ VarIdle
    /\ PortfolioIdle
    /\ MarketIdle

TransactionNext ==
    \E user \in Users, pid \in {1, 2}, transaction \in TransactionCreates :
        CreateTransaction(user, pid, transaction)

\* Requests to create_transaction only, one after the other.
TransactionSpec == TransactionInit /\ [][TransactionNext]_vars

(***************************************************************************)
(* Requests served at the same time by two worker processes, each with its  *)
(* own database session.  A step of a request runs from one round trip to   *)
(* the database to the next: what a query loaded stays in the session while *)
(* the other worker commits.                                                *)
(***************************************************************************)
Workers == {1, 2}

\* The most requests one worker serves.
MaxServed == 1

\* Quantities of the holding the table starts with.
HeldQuantities == {1, 2, 3}

HoldingCreates == [stock_id : {1}, quantity : TxQuantities]

IdleSession ==
    [pc |-> "idle", served |-> 0, name |-> "", portfolio_id |-> NoId,
     request |-> <<>>, holding |-> <<>>, status |-> 0]

\* The session of worker w once it has answered with status_code.
Answered(w, status_code) ==
    [workers EXCEPT ![w].pc = "idle", ![w].status = status_code]

\* The session of worker w as it takes a request.
Taken(w, name, pid, request) ==
    [workers[w] EXCEPT !.served = @ + 1, !.name = name, !.portfolio_id = pid,
                       !.request = request, !.holding = <<>>, !.status = 0]

CanTake(w) == workers[w].pc = "idle" /\ workers[w].served < MaxServed

ConcurrentFrame ==
    UNCHANGED <<portfolios, stocks, risk_analyses, callVars, analysis_service,
                pureVars, previous, varVars, requestVars, marketVars>>

\* create_transaction, lines 204-229: the two checks and the Transaction row
\* committed.
CreateTransactionBegin(w, user, pid, transaction) ==
    /\ CanTake(w)
    /\ LET session == Taken(w, "create_transaction", pid, transaction)
       IN  IF ~Owns(user, pid) \/ ~StockExists(transaction.stock_id)
           THEN /\ workers' = [workers EXCEPT ![w] = [session EXCEPT !.status = 404]]
                /\ UNCHANGED transactions
           ELSE /\ workers' = [workers EXCEPT ![w] = [session EXCEPT !.pc = "query"]]
                /\ transactions' =
                      Append(transactions, NewTransaction(transactions, pid, transaction))
    /\ UNCHANGED holdings
    /\ ConcurrentFrame

\* create_transaction, lines 231-235: the holding loaded into the session.
CreateTransactionQuery(w) ==
    /\ workers[w].pc = "query"
    /\ workers' = [workers EXCEPT
                     ![w].pc = "settle",
                     ![w].holding = FindHolding(holdings, workers[w].portfolio_id,
                                                workers[w].request.stock_id)]
    /\ UNCHANGED <<holdings, transactions>>
    /\ ConcurrentFrame

\* create_transaction, lines 237-262: the holding changed and committed, or
\* the 400.
CreateTransactionSettle(w) ==
    /\ workers[w].pc = "settle"
    /\ workers[w].name = "create_transaction"
    /\ LET settled == UpdateOrCreateHolding(holdings, workers[w].holding,
                                            workers[w].portfolio_id, workers[w].request)
       IN  /\ holdings' = settled.holdings
           /\ workers' = Answered(w, settled.status)
    /\ UNCHANGED transactions
    /\ ConcurrentFrame

\* Lines 126-145 of create_holding: `existing_holding` is the row loaded by
\* the query of line 121, `hs` the table when the session commits.
UpdateOrInsertHolding(hs, existing_holding, pid, holding) ==
    IF existing_holding # <<>>
    THEN IF HasRow(hs, existing_holding[1].id)
         THEN Settled(UpdateQuantity(hs, existing_holding[1].id, holding.quantity))
         ELSE Stale(hs)
    ELSE Settled(Append(hs, [id |-> NextId(hs), portfolio_id |-> pid,
                             stock_id |-> holding.stock_id,
                             quantity |-> holding.quantity]))

\* create_holding, lines 107-124: the two checks and the existing holding
\* loaded.
CreateHoldingBegin(w, user, pid, holding) ==
    /\ CanTake(w)
    /\ LET session == Taken(w, "create_holding", pid, holding)
       IN  IF ~Owns(user, pid) \/ ~StockExists(holding.stock_id)
           THEN workers' = [workers EXCEPT ![w] = [session EXCEPT !.status = 404]]
           ELSE workers' = [workers EXCEPT ![w] =
                              [session EXCEPT
                                 !.pc = "settle",
                                 !.holding = FindHolding(holdings, pid, holding.stock_id)]]
    /\ UNCHANGED <<holdings, transactions>>
    /\ ConcurrentFrame

\* create_holding, lines 126-145: the row updated or inserted, and committed.
CreateHoldingSettle(w) ==
    /\ workers[w].pc = "settle"
    /\ workers[w].name = "create_holding"
    /\ LET settled == UpdateOrInsertHolding(holdings, workers[w].holding,
                                            workers[w].portfolio_id, workers[w].request)
       IN  /\ holdings' = settled.holdings
           /\ workers' = Answered(w, settled.status)
    /\ UNCHANGED transactions
    /\ ConcurrentFrame

\* db.query(models.Holding).filter(id, portfolio_id).first() of
\* delete_holding (lines 184-187).
GetHolding(hs, pid, holding_id) ==
    LET found == SelectSeq(hs, LAMBDA h : h.id = holding_id /\ h.portfolio_id = pid)
    IN  IF found = <<>> THEN <<>> ELSE <<Head(found)>>

\* delete_holding, lines 175-189: the check and the holding loaded.
DeleteHoldingBegin(w, user, pid, holding_id) ==
    /\ CanTake(w)
    /\ LET session == Taken(w, "delete_holding", pid, [holding_id |-> holding_id])
       IN  IF ~Owns(user, pid) \/ GetHolding(holdings, pid, holding_id) = <<>>
           THEN workers' = [workers EXCEPT ![w] = [session EXCEPT !.status = 404]]
           ELSE workers' = [workers EXCEPT ![w] =
                              [session EXCEPT
                                 !.pc = "settle",
                                 !.holding = GetHolding(holdings, pid, holding_id)]]
    /\ UNCHANGED <<holdings, transactions>>
    /\ ConcurrentFrame

\* delete_holding, lines 191-193: the row deleted (a DELETE that matches no
\* row is no error) and committed.
DeleteHoldingSettle(w) ==
    /\ workers[w].pc = "settle"
    /\ workers[w].name = "delete_holding"
    /\ holdings' = DeleteRow(holdings, workers[w].holding[1].id)
    /\ workers' = Answered(w, 204)
    /\ UNCHANGED transactions
    /\ ConcurrentFrame

\* Portfolio 1 of user 1, with no holding or with one holding of stock 1.
ConcurrentInit ==
    /\ portfolios = {[id |-> 1, owner_id |-> 1]}
    /\ \/ holdings = <<>>
       \/ \E q \in HeldQuantities :
             holdings = <<[id |-> 1, portfolio_id |-> 1, stock_id |-> 1, quantity |-> q]>>
    /\ stocks = [s \in StockIds |-> [symbol |-> Symbol(s), current_price |-> 0]]
    /\ risk_analyses = <<>>
    /\ CallInit
    /\ EngineInit
    /\ ScorerIdle
    /\ RecommendIdle
    /\ VarIdle
    /\ transactions = <<>>
    /\ operation = NoOperation
    /\ returned = <<>>
    /\ workers = [w \in Workers |-> IdleSession]
    /\ MarketIdle

\* The owner's requests on portfolio 1 and stock 1.
ConcurrentNext ==
    \E w \in Workers :
        \/ \E transaction \in {t \in TransactionCreates : t.stock_id = 1} :
              CreateTransactionBegin(w, 1, 1, transaction)
        \/ CreateTransactionQuery(w)
        \/ CreateTransactionSettle(w)
        \/ \E holding \in HoldingCreates : CreateHoldingBegin(w, 1, 1, holding)
        \/ CreateHoldingSettle(w)
        \/ \E holding_id \in {1, 2} : DeleteHoldingBegin(w, 1, 1, holding_id)
        \/ DeleteHoldingSettle(w)

ConcurrentSpec == ConcurrentInit /\ [][ConcurrentNext]_vars

(***************************************************************************)
(* The portfolio-scoped requests of portfolio.py and risk_analysis.py, of   *)
(* the owner of a portfolio and of another user, served one after the       *)
(* other.  A Portfolio row is [id, owner_id, name].                         *)
(* No stock has a price (create_stock stores none when the provider gives   *)
(* none), so analyze_portfolio_risk ends before its first download.         *)
(***************************************************************************)
\* The most Holding rows create_holding fills and the most Transaction rows
\* explored.
MaxRows == 1

\* The portfolio ids the requests name: portfolio 1 and one that no row has.
PortfolioIds == {1, 2}

PortfolioNames == {"a", "b"}

\* The variables no handler of the portfolio router writes.
engineVars == <<stocks, analysisVars, analysis_service, pureVars, previous, varVars,
                workers, marketVars>>

NotFound == Reply(404, "Portfolio not found", <<>>)

\* read_portfolio (lines 43-55)
ReadPortfolio(user, pid) ==
    /\ Served("read_portfolio", user, <<pid>>)
    /\ IF OwnedPortfolio(user, pid) = {}
       THEN NotFound
       ELSE Reply(200, "", <<CHOOSE p \in OwnedPortfolio(user, pid) : TRUE>>)
    /\ UNCHANGED <<portfolios, holdings, transactions, risk_analyses, engineVars>>

\* update_portfolio (lines 58-78)
UpdatePortfolio(user, pid, name) ==
    /\ Served("update_portfolio", user, <<pid>>)
    /\ IF OwnedPortfolio(user, pid) = {}
       THEN NotFound /\ UNCHANGED portfolios
       ELSE LET db_portfolio == CHOOSE p \in OwnedPortfolio(user, pid) : TRUE
                updated == [db_portfolio EXCEPT !.name = name]
            IN  /\ portfolios' = (portfolios \ {db_portfolio}) \cup {updated}
                /\ Reply(200, "", <<updated>>)
    /\ UNCHANGED <<holdings, transactions, risk_analyses, engineVars>>

\* The flush of db.delete(db_portfolio) on the rows of a one-to-many
\* relationship without a delete cascade (Portfolio.holdings,
\* Portfolio.transactions): their portfolio_id is set to NULL.
Nullify(rows, pid) ==
    Seq_([i \in DOMAIN rows |->
            IF rows[i].portfolio_id = pid THEN [rows[i] EXCEPT !.portfolio_id = NoId]
            ELSE rows[i]])

\* delete_portfolio (lines 81-96).  Portfolio has no relationship to
\* RiskAnalysis: those rows are left as they are.
DeletePortfolio(user, pid) ==
    /\ Served("delete_portfolio", user, <<pid>>)
    /\ IF OwnedPortfolio(user, pid) = {}
       THEN NotFound /\ UNCHANGED <<portfolios, holdings, transactions>>
       ELSE /\ portfolios' = portfolios \ OwnedPortfolio(user, pid)
            /\ holdings' = Nullify(holdings, pid)
            /\ transactions' = Nullify(transactions, pid)
            /\ Reply(204, "", <<>>)
    /\ UNCHANGED <<risk_analyses, engineVars>>

\* create_holding (lines 100-145), one request served from start to end.
CreateHolding(user, pid, holding) ==
    /\ Served("create_holding", user, <<pid>>)
    /\ IF OwnedPortfolio(user, pid) = {}
       THEN NotFound /\ UNCHANGED holdings
       ELSE IF ~StockExists(holding.stock_id)
       THEN Reply(404, "Stock not found", <<>>) /\ UNCHANGED holdings
       ELSE LET existing_holding == FindHolding(holdings, pid, holding.stock_id)
                settled == UpdateOrInsertHolding(holdings, existing_holding, pid, holding)
            IN  /\ existing_holding # <<>> \/ Len(holdings) < MaxRows
                /\ holdings' = settled.holdings
                /\ Reply(200, "", FindHolding(settled.holdings, pid, holding.stock_id))
    /\ UNCHANGED <<portfolios, transactions, risk_analyses, engineVars>>

\* read_holdings (lines 148-165)
ReadHoldings(user, pid) ==
    /\ Served("read_holdings", user, <<pid>>)
    /\ IF OwnedPortfolio(user, pid) = {}
       THEN NotFound
       ELSE Reply(200, "", HoldingsOf(holdings, pid))
    /\ UNCHANGED <<portfolios, holdings, transactions, risk_analyses, engineVars>>

\* delete_holding (lines 168-193), one request served from start to end.
DeleteHolding(user, pid, holding_id) ==
    /\ Served("delete_holding", user, <<pid>>)
    /\ IF OwnedPortfolio(user, pid) = {}
       THEN NotFound /\ UNCHANGED holdings
       ELSE IF GetHolding(holdings, pid, holding_id) = <<>>
       THEN Reply(404, "Holding not found", <<>>) /\ UNCHANGED holdings
       ELSE /\ holdings' = DeleteRow(holdings, holding_id)
            /\ Reply(204, "", <<>>)
    /\ UNCHANGED <<portfolios, transactions, risk_analyses, engineVars>>

\* The rows of a table that belong to a portfolio, the newest first
\* (order_by(...desc())).
NewestFirst(rows, pid) ==
    LET mine == SelectSeq(rows, LAMBDA r : r.portfolio_id = pid)
    IN  Seq_([i \in 1 .. Len(mine) |-> mine[Len(mine) + 1 - i]])

\* read_transactions (lines 265-282)
ReadTransactions(user, pid) ==
    /\ Served("read_transactions", user, <<pid>>)
    /\ IF OwnedPortfolio(user, pid) = {}
       THEN NotFound
       ELSE Reply(200, "", NewestFirst(transactions, pid))
    /\ UNCHANGED <<portfolios, holdings, transactions, risk_analyses, engineVars>>

\* .order_by(analysis_date.desc()).first(): <<the row>> or <<>> for None.
LatestAnalysis(pid) ==
    IF NewestFirst(risk_analyses, pid) = <<>> THEN <<>>
    ELSE <<Head(NewestFirst(risk_analyses, pid))>>

\* get_portfolio_summary (lines 285-337): the body holds the portfolio, its
\* holdings and its latest risk analysis.
GetPortfolioSummary(user, pid) ==
    /\ Served("get_portfolio_summary", user, <<pid>>)
    /\ IF OwnedPortfolio(user, pid) = {}
       THEN NotFound
       ELSE Reply(200, "", <<CHOOSE p \in OwnedPortfolio(user, pid) : TRUE>>
                             \o HoldingsOf(holdings, pid) \o LatestAnalysis(pid))
    /\ UNCHANGED <<portfolios, holdings, transactions, risk_analyses, engineVars>>

\* get_risk_analysis_history (risk_analysis.py, lines 179-201)
GetRiskAnalysisHistory(user, pid) ==
    /\ Served("get_risk_analysis_history", user, <<pid>>)
    /\ IF OwnedPortfolio(user, pid) = {}
       THEN NotFound
       ELSE Reply(200, "", NewestFirst(risk_analyses, pid))
    /\ UNCHANGED <<portfolios, holdings, transactions, risk_analyses, engineVars>>

\* get_latest_risk_analysis (risk_analysis.py, lines 204-225)
GetLatestRiskAnalysis(user, pid) ==
    /\ Served("get_latest_risk_analysis", user, <<pid>>)
    /\ IF OwnedPortfolio(user, pid) = {}
       THEN NotFound
       ELSE IF LatestAnalysis(pid) = <<>>
       THEN Reply(404, "No risk analysis found for this portfolio", <<>>)
       ELSE Reply(200, "", LatestAnalysis(pid))
    /\ UNCHANGED <<portfolios, holdings, transactions, risk_analyses, engineVars>>

\* The loop of compare_portfolio_risks (lines 239-262) from position i on:
\* the latest analyses collected, or <<"404">> at the first portfolio that
\* is not the user's.
RECURSIVE CompareLoop(_, _, _)
CompareLoop(user, pids, i) ==
    IF i > Len(pids) THEN <<>>
    ELSE IF OwnedPortfolio(user, pids[i]) = {} THEN <<"404">>
    ELSE LET rest == CompareLoop(user, pids, i + 1)
         IN  IF rest = <<"404">> THEN rest ELSE LatestAnalysis(pids[i]) \o rest

\* The fewest ids compare_portfolio_risks accepts.
MinCompared == 2

\* compare_portfolio_risks (risk_analysis.py, lines 228-267)
ComparePortfolioRisks(user, pids) ==
    /\ Served("compare_portfolio_risks", user, pids)
    /\ IF Len(pids) < MinCompared
       THEN Reply(400, "Please provide at least two portfolio IDs for comparison", <<>>)
       ELSE IF CompareLoop(user, pids, 1) = <<"404">>
       THEN Reply(404, "Portfolio with ID not found", <<>>)
       ELSE IF CompareLoop(user, pids, 1) = <<>>
       THEN Reply(404, "No risk analyses found for the specified portfolios", <<>>)
       ELSE Reply(200, "", CompareLoop(user, pids, 1))
    /\ UNCHANGED <<portfolios, holdings, transactions, risk_analyses, engineVars>>

\* The lists of portfolio ids a compare request may carry.
ComparedIds == UNION {[1 .. n -> PortfolioIds] : n \in 1 .. MinCompared}

\* analyze_portfolio_risk has answered: the locals of the call are gone and
\* the next request can be served.
Return ==
    /\ pc = "done"
    /\ pc' = "idle"
    /\ current_user' = 1 /\ portfolio_id' = 1 /\ confidence_level' = 95
    /\ response' = NoResponse
    /\ UNCHANGED <<dbVars, weightVars, routerVars, serviceVars, provider_calls,
                   raised_at, analysis_service, frameVars>>

\* One portfolio, of user 1; user 2 has none.
PortfolioInit ==
    /\ portfolios = {[id |-> 1, owner_id |-> 1, name |-> "a"]}
    /\ holdings = <<>>
    /\ stocks = [s \in StockIds |-> [symbol |-> Symbol(s), current_price |-> 0]]
    /\ risk_analyses = <<>>
    /\ CallInit
    /\ EngineInit
    /\ ScorerIdle
    /\ RecommendIdle
    /\ VarIdle
    /\ PortfolioIdle
    /\ MarketIdle

PortfolioNext ==
    \/ pc = "idle" /\ \E user \in Users, pid \in PortfolioIds : ReadPortfolio(user, pid)
    \/ pc = "idle" /\ \E user \in Users, pid \in PortfolioIds, name \in PortfolioNames :
                         UpdatePortfolio(user, pid, name)
    \/ pc = "idle" /\ \E user \in Users, pid \in PortfolioIds : DeletePortfolio(user, pid)
    \/ pc = "idle" /\ \E user \in Users, pid \in PortfolioIds, holding \in HoldingCreates :
                         CreateHolding(user, pid, holding)
    \/ pc = "idle" /\ \E user \in Users, pid \in PortfolioIds : ReadHoldings(user, pid)
    \/ pc = "idle" /\ \E user \in Users, pid \in PortfolioIds, holding_id \in 1 .. MaxRows :
                         DeleteHolding(user, pid, holding_id)
    \/ pc = "idle" /\ Len(transactions) < MaxRows
                   /\ \E user \in Users, pid \in PortfolioIds,
                         transaction \in {t \in TransactionCreates : t.quantity = 1} :
                         CreateTransaction(user, pid, transaction)
    \/ pc = "idle" /\ \E user \in Users, pid \in PortfolioIds : ReadTransactions(user, pid)
    \/ pc = "idle" /\ \E user \in Users, pid \in PortfolioIds : GetPortfolioSummary(user, pid)
    \/ \E user \in Users, pid \in PortfolioIds : Request(user, pid, 95)
    \/ Return
    \/ pc = "idle" /\ \E user \in Users, pid \in PortfolioIds : GetRiskAnalysisHistory(user, pid)
    \/ pc = "idle" /\ \E user \in Users, pid \in PortfolioIds : GetLatestRiskAnalysis(user, pid)
    \/ pc = "idle" /\ \E user \in Users, pids \in ComparedIds : ComparePortfolioRisks(user, pids)

PortfolioSpec == PortfolioInit /\ [][PortfolioNext]_vars

(***************************************************************************)
(* The market data router: get_market_indices and update_market_indices.   *)
(* A MarketIndex row is [symbol, last_updated]; the clock counts half      *)
(* hours from 1, and last_updated = NoTime is the NULL of a row that was   *)
(* never updated.                                                          *)
(***************************************************************************)
INDIAN_INDICES == <<"^NSEI", "^BSESN", "^NSEBANK", "^CNXIT", "^CNXPHARMA", "^CNXAUTO">>

\* The number of symbols of INDIAN_INDICES explored, from the first on.
MaxIndices == 3

\* The last tick of the clock.
MaxClock == 5

\* The most yf.download calls explored.
MaxFetches == 3

IndexSymbols == SubSeq(INDIAN_INDICES, 1, MaxIndices)

NoTime == 0

\* timedelta(hours=1), in ticks
Hour == 2

\* Lines 119-124: an empty table is filled with one row per symbol, none of
\* them updated yet.
Stored(indices) ==
    IF indices = <<>>
    THEN Seq_([i \in DOMAIN IndexSymbols |->
                 [symbol |-> IndexSymbols[i], last_updated |-> NoTime]])
    ELSE indices

\* Lines 127-132
UpdateNeeded(indices, now) ==
    \E i \in DOMAIN indices :
        \/ indices[i].last_updated = NoTime
        \/ now - indices[i].last_updated > Hour

\* update_market_indices, lines 148-161: the rows of the symbols that have a
\* Close column in the downloaded frame are stamped; close is the set of
\* these symbols.
UpdateMarketIndices(indices, close, now) ==
    Seq_([i \in DOMAIN indices |->
            IF indices[i].symbol \in close
            THEN [indices[i] EXCEPT !.last_updated = now]
            ELSE indices[i]])

\* The frames yf.download may return, by the symbols of their Close columns
\* (none: the frame is empty or has no Close).
CloseColumns == SUBSET {IndexSymbols[i] : i \in DOMAIN IndexSymbols}

\* get_market_indices (lines 110-138) with the update_market_indices call it
\* awaits: the coroutine has no suspension point of its own, so the request
\* is served in one step.  An exception of the download or of the loop is
\* caught at line 162 and writes nothing.
GetMarketIndices(user) ==
    LET indices == Stored(market_indices)
    IN  /\ pc = "idle"
        /\ Served("get_market_indices", user, <<>>)
        /\ IF UpdateNeeded(indices, utcnow)
           THEN /\ refresh.fetches < MaxFetches
                /\ \/ /\ market_indices' = indices
                      /\ refresh' = [fetches |-> refresh.fetches + 1, at |-> utcnow,
                                     raised |-> TRUE]
                   \/ \E close \in CloseColumns :
                         /\ market_indices' = UpdateMarketIndices(indices, close, utcnow)
                         /\ refresh' = [fetches |-> refresh.fetches + 1, at |-> utcnow,
                                        raised |-> FALSE]
           ELSE /\ market_indices' = indices
                /\ refresh' = refresh
        /\ Reply(200, "", market_indices')
        /\ UNCHANGED <<dbVars, analysisVars, analysis_service, pureVars, previous,
                       varVars, transactions, workers, utcnow>>

\* Half an hour passes.
Tick ==
    /\ utcnow < MaxClock
    /\ utcnow' = utcnow + 1
    /\ UNCHANGED <<dbVars, callVars, analysis_service, pureVars, previous, varVars,
                   transactions, requestVars, workers, market_indices, refresh>>

\* The server is up and the market_indices table is empty.
MarketInit ==
    /\ portfolios = {[id |-> 1, owner_id |-> 1]}
    /\ holdings = <<>>
    /\ stocks = [s \in StockIds |-> [symbol |-> Symbol(s), current_price |-> 0]]
    /\ risk_analyses = <<>>
    /\ CallInit
    /\ EngineInit
    /\ ScorerIdle
    /\ RecommendIdle
    /\ VarIdle
    /\ PortfolioIdle
    /\ market_indices = <<>>
    /\ utcnow = 1
    /\ refresh = NoRefresh

MarketNext ==
    \/ \E user \in Users : GetMarketIndices(user)
    \/ Tick

MarketSpec == MarketInit /\ [][MarketNext]_vars

(***************************************************************************)
(* Properties                                                              *)
(***************************************************************************)
\* C1: for a portfolio of the caller with at least one priced holding and a
\* provider that returns enough history without raising, the finished call
\* has persisted exactly one RiskAnalysis and returned it, never an error.
C1_AnalysisPersisted ==
    (/\ pc = "done"
     /\ \E p \in portfolios : p.id = portfolio_id /\ p.owner_id = current_user
     /\ symbols # <<>>
     /\ raised_at = 0
     /\ Len(returns.rows) >= 2
     /\ RatPos(volatility.sq)
     /\ risk_metrics.computed
     /\ RatPos(risk_metrics.volatility.sq))
    => (response.status = 200 /\ Len(risk_analyses) = 1)

\* C2: when every holding's market value is non-negative, the resolved
\* weights are non-negative, sum to 1 and are one per symbol passed on.
C2_WeightsNormalised ==
    (/\ symbols # <<>>
     /\ \A i \in 1 .. Len(holdings) :
           holdings[i].portfolio_id = portfolio_id
           => holdings[i].quantity * stocks[holdings[i].stock_id].current_price >= 0)
    => /\ Len(weights) = Len(symbols)
       /\ \A i \in 1 .. Len(weights) :
             weights[i][1] >= 0 /\ weights[i][2] = weights[1][2]
       /\ SumSeq([i \in 1 .. Len(weights) |-> weights[i][1]]) = weights[1][2]

\* Two holdings of different non-negative value have been resolved.
C2_Witness ==
    /\ pc = "fetch"
    /\ \A i \in 1 .. Len(holdings) : holdings[i].quantity >= 0
    /\ Len(weights) = 2
    /\ weights[1][1] # weights[2][1]

\* C3, as amended: when at least one holding of the portfolio has a priced
\* stock and the market values sum to zero, weight resolution does not fail
\* and gives 1/N to each of the N holdings that have a priced stock.
C3_EqualWeightsOverPriced ==
    LET mine == {i \in 1 .. Len(holdings) : holdings[i].portfolio_id = portfolio_id}
        priced == {i \in mine : stocks[holdings[i].stock_id].current_price # 0}
        value == [i \in 1 .. Len(holdings) |->
                    IF i \in priced
                    THEN holdings[i].quantity * stocks[holdings[i].stock_id].current_price
                    ELSE 0]
    IN  (/\ pc # "idle"
         /\ \E p \in portfolios : p.id = portfolio_id /\ p.owner_id = current_user
         /\ priced # {}
         /\ SumSeq(value) = 0)
        => /\ response.status \notin {400, 404}
           /\ Len(weights) = Cardinality(priced)
           /\ \A i \in 1 .. Len(weights) : weights[i] = <<1, Cardinality(priced)>>

\* Two priced holdings whose values cancel have got 1/2 each.
C3_Witness ==
    /\ pc = "fetch"
    /\ total_value = 0
    /\ Len(symbols) = 2
    /\ \A i \in 1 .. Len(holdings) : holdings[i].quantity # 0
    /\ weights = <<(<<1, 2>>), (<<1, 2>>)>>

\* C3, as stated: when the market values sum to zero, every one of the N
\* holdings of the portfolio gets the weight 1/N.
C3_EqualWeightsOverHoldings ==
    LET mine == {i \in 1 .. Len(holdings) : holdings[i].portfolio_id = portfolio_id}
        priced == {i \in mine : stocks[holdings[i].stock_id].current_price # 0}
        value == [i \in 1 .. Len(holdings) |->
                    IF i \in priced
                    THEN holdings[i].quantity * stocks[holdings[i].stock_id].current_price
                    ELSE 0]
    IN  (/\ pc # "idle"
         /\ \E p \in portfolios : p.id = portfolio_id /\ p.owner_id = current_user
         /\ priced # {}
         /\ SumSeq(value) = 0)
        => /\ response.status \notin {400, 404}
           /\ Len(weights) = Cardinality(mine)
           /\ \A i \in 1 .. Len(weights) : weights[i] = <<1, Cardinality(mine)>>

\* C4: the risk score of any finite volatility, daily VaR and Sharpe ratio,
\* negative and very large ones included, is an integer from 1 to 10.
C4_ScoreInRange ==
    scorer_out # <<>> => scorer_out[1] \in 1 .. 10

\* A very large volatility has been scored, at the upper end.
C4_Witness ==
    /\ scorer_out = <<10>>
    /\ scorer_in.volatility > 100 * VolScale
    /\ scorer_in.daily_var < 0

\* C5: each Sharpe ratio of an analysis, the stored one and the one fed to
\* the scorer, is finite, and is 0 when its volatility is exactly 0.
C5_SharpeDefined ==
    /\ pc \in {"service", "done"} /\ volatility # NoRoot
       => /\ IsFinite(sharpe_ratio.num) /\ RatPos(sharpe_ratio.den_sq)
          /\ volatility.sq = RatZero => sharpe_ratio = ZeroSharpe
    /\ risk_metrics.computed
       => /\ IsFinite(risk_metrics.sharpe_ratio.num)
          /\ RatPos(risk_metrics.sharpe_ratio.den_sq)
          /\ risk_metrics.volatility.sq = RatZero
             => risk_metrics.sharpe_ratio = ZeroSharpe

\* C6: the daily VaR of calculate_var is never negative.
C6_DailyVarNonNegative ==
    risk_metrics.computed => risk_metrics.daily_var.coef[1] >= 0

\* C7: in every result of calculate_portfolio_var the weekly VaR is the daily
\* VaR times sqrt(5) and the monthly VaR the daily VaR times sqrt(21): the
\* squares are in the ratios 5 and 21 and the signs agree.
C7_SquareRootOfTime ==
    LET d == risk_metrics.daily_var
        w == risk_metrics.weekly_var
        m == risk_metrics.monthly_var
        Sq(v) == v.coef[1] * v.coef[1] * v.root
        Dn(v) == v.coef[2] * v.coef[2]
    IN  risk_metrics.computed
        => /\ Sq(w) * Dn(d) = 5 * Sq(d) * Dn(w)
           /\ Sq(m) * Dn(d) = 21 * Sq(d) * Dn(m)
           /\ w.coef[1] * d.coef[1] >= 0
           /\ m.coef[1] * d.coef[1] >= 0
           /\ Dn(d) > 0 /\ Dn(w) > 0 /\ Dn(m) > 0

\* A result with a daily VaR that is not 0, for two instruments.
C7_Witness ==
    /\ risk_metrics.computed
    /\ risk_metrics.daily_var.coef[1] # 0
    /\ Len(symbols) = 2

\* C8: with fewer than ceil(1 / (1 - c)) portfolio returns, that is with
\* n * (1 - c) < 1, the VaR calculation fails instead of returning a number.
C8_InsufficientHistoryRaised ==
    (/\ pc = "done"
     /\ provider_calls = 2
     /\ raised_at = 0
     /\ Len(Returns(service_data).rows) * (100 - confidence_level) < 100)
    => (risk_metrics.raised /\ ~risk_metrics.computed)

\* C9: once the provider has raised, the call has ended in an error, the
\* provider has not been invoked again and no RiskAnalysis is persisted.
C9_ProviderErrorEndsCall ==
    raised_at # 0
    => /\ pc = "done"
       /\ response.status >= 400
       /\ provider_calls = raised_at
       /\ risk_analyses = <<>>

\* The download of calculate_portfolio_var has raised after the first one
\* returned a frame.
C9_Witness ==
    /\ raised_at = 2
    /\ data # NoData
    /\ response.status = 500

\* C10: a call that got as far as the provider invoked it exactly once, and
\* the metrics of calculate_portfolio_var come from the frame the stored
\* volatility and Sharpe ratio come from.
C10_SingleDownload ==
    (pc = "done" /\ symbols # <<>> /\ raised_at = 0)
    => /\ provider_calls = 1
       /\ risk_metrics.computed => service_data = data

C12_SingletonUnchanged ==
    [][(pc = "service" /\ pc' = "done") => analysis_service' = analysis_service]_vars

\* Two calls have run calculate_portfolio_var and the singleton is still as
\* __init__ left it.
C12_Witness ==
    /\ previous.called /\ previous.risk_metrics.computed
    /\ pc = "done" /\ risk_metrics.computed
    /\ analysis_service = AnalysisServiceNew

\* C13: with a the correlation of the two columns, a > 0.7 gives the
\* high-correlation message, 0.5 <= a <= 0.7 the moderate one and a < 0.5 the
\* well-diversified one.
C13_CorrelationBands ==
    LET frame == rec_in.returns
        a == Corr(Column(frame.rows, 1), Column(frame.rows, 2))
        Above(pct) == a.cov > 0
                      /\ FracLess(pct * pct * a.var_y, 10000 * a.cov, a.cov, a.var_x)
        Below(pct) == a.cov <= 0
                      \/ FracLess(a.cov, a.var_x, pct * pct * a.var_y, 10000 * a.cov)
    IN  (recommendations # <<>> /\ Len(rec_in.symbols) = 2 /\ ~a.nan)
        => recommendations[1].diversification =
              (IF Above(70) THEN "high correlation"
               ELSE IF Below(50) THEN "well-diversified"
               ELSE "moderate diversification")

\* C14: for a single instrument generate_recommendations returns, and its
\* diversification field is none of the three band messages.
C14_SingleInstrumentNotApplicable ==
    (recommendations # <<>> /\ Len(rec_in.symbols) = 1)
    => /\ ~recommendations[1].raised
       /\ recommendations[1].diversification \notin
             {"high correlation", "moderate diversification", "well-diversified"}

\* C15: instrument i has an optimization entry exactly when its own Sharpe
\* ratio sqrt(252) * mean / std (0 when its volatility is not positive) is
\* below 0.1 and its weight is above 0.10; every entry has the action
\* "reduce" and no instrument is listed twice.
C15_ReduceEntries ==
    LET frame == rec_in.returns
        opt == recommendations[1].optimization
        Listed(sym) == \E k \in 1 .. Len(opt) : opt[k].symbol = sym
        LowSharpe(x) ==
            LET n == Len(x)
                S == SumSeq(x)
                V == n * SumSq(x) - S * S
            IN  IF n < 2 \/ V = 0 THEN TRUE
                ELSE S <= 0 \/ FracLess(25200 * S * (n - 1), V, n, S)
    IN  recommendations # <<>>
        => /\ ~recommendations[1].raised
           /\ \A i \in 1 .. Len(rec_in.symbols) :
                 Listed(rec_in.symbols[i])
                 <=> (/\ LowSharpe([t \in 1 .. Len(frame.rows) |-> frame.rows[t][i]])
                      /\ 10 * rec_in.weights[i][1] > rec_in.weights[i][2])
           /\ \A k \in 1 .. Len(opt) : opt[k].action = "reduce"
           /\ \A k, l \in 1 .. Len(opt) : opt[k].symbol = opt[l].symbol => k = l

\* Two instruments with the same returns, of a positive mean and a Sharpe
\* ratio below 0.1: the one of weight 0.15 is listed, the one of weight 0.05
\* is not.
C15_Witness ==
    /\ recommendations # <<>>
    /\ rec_in.weights = <<(<<3, 20>>), (<<1, 20>>)>>
    /\ rec_in.returns.rows = <<(<<-60, -60>>), (<<61, 61>>)>>
    /\ recommendations[1].optimization = <<[symbol |-> "A", action |-> "reduce"]>>

\* C16: the summary is the high-risk message for a score of 8 or more, the
\* moderate one for 5 to 7 and the conservative one below 5.
C16_SummaryBands ==
    recommendations # <<>>
    => recommendations[1].summary =
          (IF rec_in.risk_score >= 8 THEN "high risk"
           ELSE IF rec_in.risk_score \in 5 .. 7 THEN "moderate risk"
           ELSE "conservative")

\* A score of 8, at the lower end of the high-risk band, for two instruments
\* of three returns each.
C16_Witness ==
    /\ recommendations # <<>>
    /\ rec_in.risk_score = 8
    /\ Len(rec_in.symbols) = 2 /\ Len(rec_in.returns.rows) = 3
    /\ recommendations[1].summary = "high risk"

\* C17: when a holding resolves to a negative market value (and the total is
\* positive, so that the values are divided by it), the call ends in an
\* explicit error before anything is computed from the weights.
C17_InvalidWeightsRaised ==
    (/\ pc # "idle"
     /\ \E p \in portfolios : p.id = portfolio_id /\ p.owner_id = current_user
     /\ total_value > 0
     /\ \E i \in 1 .. Len(holdings) :
           /\ holdings[i].portfolio_id = portfolio_id
           /\ holdings[i].quantity * stocks[holdings[i].stock_id].current_price < 0)
    => /\ pc = "done"
       /\ response.status >= 400
       /\ provider_calls = 0

\* C18: whenever a metric has been computed from a frame and two different
\* positive weights, column i of the frame is the series of symbol i.
C18_WeightsMatchColumns ==
    (Len(weights) = 2 /\ 0 < weights[1][1] /\ weights[1][1] < weights[2][1])
    => /\ (pc \in {"service", "done"} /\ volatility # NoRoot) => data.columns = symbols
       /\ risk_metrics.computed => service_data.columns = symbols

\* C19: the volatility and the Sharpe ratio the risk score was computed from
\* are the volatility and the Sharpe ratio of the RiskAnalysis record, here
\* when both downloads returned the same frame.
C19_ScoredMetricsStored ==
    (pc = "done" /\ risk_score >= 1 /\ service_data = data)
    => /\ risk_metrics.volatility = volatility
       /\ risk_metrics.sharpe_ratio = sharpe_ratio

\* C20, as amended: the score is round(10 * mean(volatility / 0.30,
\* daily_var / 0.03, |sharpe_ratio - 2| / 2)) clamped to 1..10, a value
\* halfway between two integers going to the even one.  With the volatility
\* v and the Sharpe ratio s in hundredths and the VaR d in thousandths the
\* raw value is (20 v + 20 d + 3 |s - 200|) / 180.
C20_RoundHalfEven ==
    LET num == 20 * scorer_in.volatility + 20 * scorer_in.daily_var
               + 3 * (IF scorer_in.sharpe_ratio >= 200
                      THEN scorer_in.sharpe_ratio - 200
                      ELSE 200 - scorer_in.sharpe_ratio)
        q == num \div 180
        r == num % 180
        rounded == IF r < 90 THEN q
                   ELSE IF r > 90 THEN q + 1
                   ELSE IF q % 2 = 0 THEN q ELSE q + 1
    IN  scorer_out # <<>>
        => scorer_out[1] = (IF rounded < 1 THEN 1 ELSE IF rounded > 10 THEN 10 ELSE rounded)

\* Volatility 0.15, VaR 0 and Sharpe ratio 0.30 give the raw value 4.5 and
\* the score 4.
C20_Witness ==
    /\ scorer_in = [volatility |-> 15, daily_var |-> 0, sharpe_ratio |-> 30]
    /\ scorer_out = <<4>>

\* C20, as stated: a value halfway between two integers goes up (4.5 gives
\* 5, 6.5 gives 7).
C20_RoundHalfUp ==
    LET num == 20 * scorer_in.volatility + 20 * scorer_in.daily_var
               + 3 * (IF scorer_in.sharpe_ratio >= 200
                      THEN scorer_in.sharpe_ratio - 200
                      ELSE 200 - scorer_in.sharpe_ratio)
        rounded == (num + 90) \div 180
    IN  scorer_out # <<>>
        => scorer_out[1] = (IF rounded < 1 THEN 1 ELSE IF rounded > 10 THEN 10 ELSE rounded)

C22_ShortHistoryDropped ==
    (pc = "service" /\ Len(symbols) = 2) =>
        /\ Len(returns.rows) >= 2
        /\ SumSeq(WeightNums(weights)) = WeightDen(weights)

\* C23: the optimization list is a subsequence of the symbols passed in:
\* every entry names one of them, entries follow the order of the symbols,
\* and no symbol is named twice.
C23_InputOrder ==
    recommendations # <<>> =>
        LET opt == recommendations[1].optimization
            syms == rec_in.symbols
            Pos(sym) == CHOOSE i \in 1 .. Len(syms) : syms[i] = sym
        IN  /\ \A k \in 1 .. Len(opt) : \E i \in 1 .. Len(syms) : syms[i] = opt[k].symbol
            /\ \A k, l \in 1 .. Len(opt) :
                  k < l => Pos(opt[k].symbol) < Pos(opt[l].symbol)

\* Symbols passed as B, A, both of weight 0.15 and both losing: two entries,
\* B before A, although A comes first in the alphabet and has the lower
\* Sharpe ratio.
C23_Witness ==
    /\ recommendations # <<>>
    /\ rec_in.symbols = <<"B", "A">>
    /\ rec_in.weights = <<(<<3, 20>>), (<<3, 20>>)>>
    /\ rec_in.returns.rows = <<(<<0, -60>>), (<<-60, -60>>), (<<61, 0>>)>>
    /\ recommendations[1].optimization =
          <<[symbol |-> "B", action |-> "reduce"], [symbol |-> "A", action |-> "reduce"]>>

\* C24: a create_transaction request answered with "Not enough shares to
\* sell" leaves the transactions and the holdings as they were.
C24_RejectedSellLeavesNoTrace ==
    [][(operation'.name = "create_transaction"
        /\ response'.detail = "Not enough shares to sell")
       => (transactions' = transactions /\ holdings' = holdings)]_vars

\* C25: for every portfolio and stock, the quantity of the holding (0 when
\* there is no holding row) is the sum of the BUY transactions minus the sum
\* of the SELL transactions, and a holding row never has the quantity 0.
C25_HoldingsMatchTransactions ==
    \A pid \in {1, 2}, stock_id \in StockIds :
        LET Sum(type) ==
                SumSeq([i \in DOMAIN transactions |->
                          IF /\ transactions[i].portfolio_id = pid
                             /\ transactions[i].stock_id = stock_id
                             /\ transactions[i].transaction_type = type
                          THEN transactions[i].quantity ELSE 0])
            rows == SelectSeq(holdings,
                              LAMBDA h : h.portfolio_id = pid /\ h.stock_id = stock_id)
            held == SumSeq([i \in DOMAIN rows |-> rows[i].quantity])
        IN  /\ held = Sum("BUY") - Sum("SELL")
            /\ \A i \in DOMAIN rows : rows[i].quantity # 0

\* C26: when the only requests served are two SELLs of the same stock of the
\* same portfolio, one by each worker, and both were accepted, the quantity
\* sold is at most the quantity held before them (the larger of the
\* quantities the two requests loaded) and the holding is lower by exactly
\* the quantity sold.
C26_NoOversell ==
    LET a == workers[1]
        b == workers[2]
        Sold(x) == /\ x.pc = "idle" /\ x.served = 1 /\ x.status = 200
                   /\ x.name = "create_transaction"
                   /\ x.request.transaction_type = "SELL"
        rows == SelectSeq(holdings, LAMBDA h : h.portfolio_id = 1 /\ h.stock_id = 1)
        held == SumSeq([i \in DOMAIN rows |-> rows[i].quantity])
    IN  (workers # <<>> /\ Sold(a) /\ Sold(b))
        => LET before == Max(a.holding[1].quantity, b.holding[1].quantity)
           IN  /\ a.request.quantity + b.request.quantity <= before
               /\ held = before - (a.request.quantity + b.request.quantity)
               /\ held >= 0

\* C27: no two Holding rows have the same portfolio and stock.
C27_OneHoldingPerStock ==
    \A i, j \in DOMAIN holdings :
        (/\ holdings[i].portfolio_id = holdings[j].portfolio_id
         /\ holdings[i].stock_id = holdings[j].stock_id) => i = j

\* C29: the portfolio_id of every Holding, Transaction and RiskAnalysis row
\* is the id of a row of the portfolios table.
C29_NoOrphans ==
    LET Named(rows) ==
            \A i \in DOMAIN rows : \E p \in portfolios : p.id = rows[i].portfolio_id
    IN  Named(holdings) /\ Named(transactions) /\ Named(risk_analyses)

\* C28: a portfolio-scoped request that names a portfolio the user does not
\* own is answered 404 - or 400 when it is a comparison of fewer than two
\* portfolios - with no record in the body, and changes no portfolio,
\* holding, transaction or risk analysis.
C28_ForeignPortfolioHidden ==
    [][LET Scoped ==
               {"read_portfolio", "update_portfolio", "delete_portfolio",
                "create_holding", "read_holdings", "delete_holding",
                "create_transaction", "read_transactions", "get_portfolio_summary",
                "get_risk_analysis_history", "get_latest_risk_analysis",
                "compare_portfolio_risks"}
           Mine(user, pid) == \E p \in portfolios : p.id = pid /\ p.owner_id = user
           Foreign(op) ==
               \E i \in DOMAIN op.portfolio_ids : ~Mine(op.current_user, op.portfolio_ids[i])
           Kept == /\ portfolios' = portfolios /\ holdings' = holdings
                   /\ transactions' = transactions /\ risk_analyses' = risk_analyses
       IN  /\ (pc = "idle" /\ pc' = "idle" /\ operation'.name \in Scoped /\ Foreign(operation'))
              => /\ IF operation'.name = "compare_portfolio_risks"
                       /\ Len(operation'.portfolio_ids) < 2
                    THEN response'.status = 400
                    ELSE response'.status = 404
                 /\ returned' = <<>>
                 /\ Kept
           /\ (pc = "idle" /\ pc' = "done" /\ ~Mine(current_user', portfolio_id'))
              => (response'.status = 404 /\ returned' = returned /\ Kept)
      ]_vars

\* User 2 has asked for the holdings of portfolio 1, which is user 1's and
\* has a holding, and was answered 404 with an empty body.
C28_Witness ==
    /\ operation.name = "read_holdings"
    /\ operation.current_user = 2
    /\ operation.portfolio_ids = <<1>>
    /\ \E p \in portfolios : p.id = 1 /\ p.owner_id = 1
    /\ HoldingsOf(holdings, 1) # <<>>
    /\ response.status = 404
    /\ returned = <<>>

\* C28 as stated: every such request is answered 404.
C28_ForeignPortfolio404 ==
    [][LET Scoped ==
               {"read_portfolio", "update_portfolio", "delete_portfolio",
                "create_holding", "read_holdings", "delete_holding",
                "create_transaction", "read_transactions", "get_portfolio_summary",
                "get_risk_analysis_history", "get_latest_risk_analysis",
                "compare_portfolio_risks"}
           Mine(user, pid) == \E p \in portfolios : p.id = pid /\ p.owner_id = user
           Foreign(op) ==
               \E i \in DOMAIN op.portfolio_ids : ~Mine(op.current_user, op.portfolio_ids[i])
           Kept == /\ portfolios' = portfolios /\ holdings' = holdings
                   /\ transactions' = transactions /\ risk_analyses' = risk_analyses
       IN  /\ (pc = "idle" /\ pc' = "idle" /\ operation'.name \in Scoped /\ Foreign(operation'))
              => (response'.status = 404 /\ returned' = <<>> /\ Kept)
           /\ (pc = "idle" /\ pc' = "done" /\ ~Mine(current_user', portfolio_id'))
              => (response'.status = 404 /\ returned' = returned /\ Kept)
      ]_vars

\* C30: after a get_market_indices call whose refresh completed without
\* error every stored index has a last_updated time, a call within one hour
\* of it performs no provider fetch, and a fetch happens only when some index
\* has no last_updated or one older than one hour.
C30_OneFetchPerHour ==
    [][LET Completed(r) == r.fetches > 0 /\ ~r.raised
           Outdated(indices) ==
               \E i \in DOMAIN indices :
                   \/ indices[i].last_updated = NoTime
                   \/ utcnow - indices[i].last_updated > Hour
       IN  /\ Completed(refresh')
                => \A i \in DOMAIN market_indices' :
                       market_indices'[i].last_updated # NoTime
           /\ (Completed(refresh) /\ utcnow - refresh.at <= Hour)
                => refresh'.fetches = refresh.fetches
           /\ refresh'.fetches # refresh.fetches
                => (market_indices = <<>> \/ Outdated(market_indices))
      ]_vars

====
